---- MODULE Spec2Model ----
(***************************************************************************)
(* Model of the shopping-cart backend: the validators (validators.js),     *)
(* the product catalog, the SQLite cart store (CartDatabase) and the REST  *)
(* handlers of server.js.  Node runs one handler at a time and the         *)
(* better-sqlite3 driver is synchronous, so every handler is one atomic    *)
(* action.                                                                 *)
(*                                                                         *)
(* JavaScript values are records [t, s, n]: t is the kind of value, s the  *)
(* characters of a string (a sequence of one-character strings), n the     *)
(* value of a finite number in thousandths (1000 is the number 1).         *)
(***************************************************************************)
EXTENDS Integers, Sequences, FiniteSets, TLC

\* Fixed-point scale of JavaScript numbers: three decimals, one more than
\* the two decimals validatePrice rounds to.
Scale == 1000

(***************************************************************************)
(* Bounds of the model.                                                    *)
(***************************************************************************)
\* requests served after the start of the server
MaxRequests == 2
\* the clock runs to day MaxDay, in steps of TickDays days
\* requests in flight where the store calls of a handler are separate steps
MaxInFlight == 2
MaxDay == 8
TickDays == 6
\* direct calls of the validators: the item lists have up to MaxProbeLen
\* elements and the whole quantities run from -2 to MaxProbeQuantity (and
\* around the maximum of 999)
MaxProbeLen == 3
MaxProbeQuantity == 12
\* calls of the cart manager that one browser makes
MaxClientCalls == 3

(***************************************************************************)
(* JavaScript values.                                                      *)
(***************************************************************************)
Undefined == [t |-> "undefined", s |-> <<>>, n |-> 0]
Null == [t |-> "null", s |-> <<>>, n |-> 0]
True == [t |-> "true", s |-> <<>>, n |-> 0]
False == [t |-> "false", s |-> <<>>, n |-> 0]
NaN == [t |-> "nan", s |-> <<>>, n |-> 0]
Infinity == [t |-> "infinity", s |-> <<>>, n |-> 0]
Object == [t |-> "object", s |-> <<>>, n |-> 0]
Milli(m) == [t |-> "number", s |-> <<>>, n |-> m]
Num(k) == Milli(k * Scale)
Str(chars) == [t |-> "string", s |-> chars, n |-> 0]

\* typeof v
TypeOf(v) ==
  CASE v.t \in {"number", "nan", "infinity"} -> "number"
    [] v.t \in {"true", "false"} -> "boolean"
    [] v.t = "null" -> "object"
    [] OTHER -> v.t

\* !v is false
Truthy(v) ==
  CASE v.t \in {"undefined", "null", "false", "nan"} -> FALSE
    [] v.t = "number" -> v.n # 0
    [] v.t = "string" -> Len(v.s) > 0
    [] OTHER -> TRUE

IsSpace(c) == c \in {" ", "\t", "\n"}

RECURSIVE TrimStart(_)
TrimStart(s) ==
  IF Len(s) > 0 /\ IsSpace(Head(s)) THEN TrimStart(Tail(s)) ELSE s

RECURSIVE TrimEnd(_)
TrimEnd(s) ==
  IF Len(s) > 0 /\ IsSpace(s[Len(s)])
    THEN TrimEnd(SubSeq(s, 1, Len(s) - 1))
    ELSE s

\* String.prototype.trim
Trim(s) == TrimEnd(TrimStart(s))

Digits == {"0", "1", "2", "3", "4", "5", "6", "7", "8", "9"}

DigitVal(c) ==
  CASE c = "0" -> 0 [] c = "1" -> 1 [] c = "2" -> 2 [] c = "3" -> 3
    [] c = "4" -> 4 [] c = "5" -> 5 [] c = "6" -> 6 [] c = "7" -> 7
    [] c = "8" -> 8 [] c = "9" -> 9

RECURSIVE DigitsVal(_)
DigitsVal(s) ==
  IF Len(s) = 0 THEN 0
  ELSE 10 * DigitsVal(SubSeq(s, 1, Len(s) - 1)) + DigitVal(s[Len(s)])

AllDigits(s) == \A i \in 1..Len(s) : s[i] \in Digits

DotAt(s) == IF \E i \in 1..Len(s) : s[i] = "."
            THEN CHOOSE i \in 1..Len(s) : s[i] = "." /\ \A j \in 1..(i - 1) : s[j] # "."
            ELSE 0

\* thousandths of the fraction digits f (at most three digits)
FracVal(f) ==
  CASE Len(f) = 0 -> 0
    [] Len(f) = 1 -> 100 * DigitsVal(f)
    [] Len(f) = 2 -> 10 * DigitsVal(f)
    [] OTHER -> DigitsVal(SubSeq(f, 1, 3))

\* s, with its first "." at d (0 for none), is an unsigned decimal literal:
\* digits, or digits "." digits (one side may be empty), with at most three
\* fraction digits
IsUnsignedDecimalAt(s, d) ==
  IF d = 0 THEN Len(s) > 0 /\ AllDigits(s)
  ELSE /\ AllDigits(SubSeq(s, 1, d - 1))
       /\ AllDigits(SubSeq(s, d + 1, Len(s)))
       /\ Len(s) > 1
       /\ Len(s) - d <= 3

UnsignedValAt(s, d) ==
  IF d = 0 THEN Scale * DigitsVal(s)
  ELSE Scale * DigitsVal(SubSeq(s, 1, d - 1)) + FracVal(SubSeq(s, d + 1, Len(s)))

\* the value of the literal s, times sign; NaN when s is no literal
DecimalValue(s, sign) ==
  IF IsUnsignedDecimalAt(s, DotAt(s))
    THEN Milli(sign * UnsignedValAt(s, DotAt(s)))
    ELSE NaN

\* the number a trimmed text u reads as
TrimmedToNumber(u) ==
  IF Len(u) = 0 THEN Milli(0)
  ELSE IF Head(u) = "-" THEN DecimalValue(Tail(u), -1)
  ELSE IF Head(u) = "+" THEN DecimalValue(Tail(u), 1)
  ELSE DecimalValue(u, 1)

\* Number(string): the trimmed text read as a decimal literal; the empty
\* text is 0 and any other text is NaN.  (Exponents, hexadecimal literals
\* and "Infinity" are outside the inputs of the model.)
StringToNumber(s) == TrimmedToNumber(Trim(s))

\* Number(v)
ToNumber(v) ==
  CASE v.t \in {"number", "nan", "infinity"} -> v
    [] v.t = "string" -> StringToNumber(v.s)
    [] v.t = "true" -> Milli(Scale)
    [] v.t \in {"false", "null"} -> Milli(0)
    [] OTHER -> NaN

\* isNaN(x) || !isFinite(x) for a number x
NotFinite(x) == x.t # "number"

\* a < b for numbers (false when either is NaN)
NumLess(a, b) ==
  CASE a.t = "nan" \/ b.t = "nan" -> FALSE
    [] a.t = "infinity" -> FALSE
    [] b.t = "infinity" -> TRUE
    [] OTHER -> a.n < b.n

\* the integer test without Math.floor
FloorIdentity(m) == m

\* Math.floor of a finite number
Floor(m) == m - (m % Scale)

\* Math.round(x * 100) / 100 of a finite number: halves round upwards
Round2(m) == ((m + 5) \div 10) * 10

(***************************************************************************)
(* Limits set by the validators.                                           *)
(***************************************************************************)
MaxProductIdLength == 100
MaxQuantity == 999
MaxPrice == 1000000
MaxNameLength == 200
MaxImageLength == 500
MaxCartItems == 100

(***************************************************************************)
(* Product catalog.                                                        *)
(***************************************************************************)
products ==
  [id \in {<<"1">>, <<"2">>, <<"3">>, <<"4">>, <<"5">>, <<"6">>, <<"7">>, <<"8">>} |->
    CASE id = <<"1">> -> [productId |-> id, name |-> <<"L","a","p","t","o","p">>, price |-> 999990]
      [] id = <<"2">> -> [productId |-> id, name |-> <<"S","m","a","r","t","p","h","o","n","e">>, price |-> 699990]
      [] id = <<"3">> -> [productId |-> id, name |-> <<"H","e","a","d","p","h","o","n","e","s">>, price |-> 199990]
      [] id = <<"4">> -> [productId |-> id, name |-> <<"K","e","y","b","o","a","r","d">>, price |-> 149990]
      [] id = <<"5">> -> [productId |-> id, name |-> <<"M","o","n","i","t","o","r">>, price |-> 299990]
      [] id = <<"6">> -> [productId |-> id, name |-> <<"M","o","u","s","e">>, price |-> 49990]
      [] id = <<"7">> -> [productId |-> id, name |-> <<"W","e","b","c","a","m">>, price |-> 79990]
      [] id = <<"8">> -> [productId |-> id, name |-> <<"S","p","e","a","k","e","r">>, price |-> 129990]]

\* ProductCatalog.getValidProductIds
getValidProductIds == DOMAIN products

(***************************************************************************)
(* CartValidators.  A result is [valid, error, sanitized].                 *)
(***************************************************************************)
Lower(c) ==
  CASE c = "X" -> "x" [] c = "S" -> "s" [] c = "P" -> "p" [] OTHER -> c

HasSub(s, pat) ==
  \E i \in 1..(Len(s) - Len(pat) + 1) :
    \A j \in 1..Len(pat) : Lower(s[i + j - 1]) = pat[j]

\* /[;'"\\]|--|\/\*|\*\/|xp_|sp_/i
dangerousPatterns(s) ==
  \/ \E i \in 1..Len(s) : s[i] \in {";", "'", "\"", "\\"}
  \/ HasSub(s, <<"-", "-">>)
  \/ HasSub(s, <<"/", "*">>)
  \/ HasSub(s, <<"*", "/">>)
  \/ HasSub(s, <<"x", "p", "_">>)
  \/ HasSub(s, <<"s", "p", "_">>)

FailId(msg) == [valid |-> FALSE, error |-> msg, sanitized |-> <<>>]

\* validateProductId without the lookup in validProductIds
validateSanitizedIdNoLookup(sanitizedId, checkIds, validProductIds) ==
  IF Len(sanitizedId) = 0 THEN FailId("Product ID cannot be empty")
  ELSE IF Len(sanitizedId) > MaxProductIdLength THEN FailId("Product ID exceeds maximum length")
  ELSE IF dangerousPatterns(sanitizedId) THEN FailId("Invalid characters in product ID")
  ELSE [valid |-> TRUE, error |-> "", sanitized |-> sanitizedId]

\* validateProductId from the trimmed id on
validateSanitizedId(sanitizedId, checkIds, validProductIds) ==
  IF Len(sanitizedId) = 0 THEN FailId("Product ID cannot be empty")
  ELSE IF checkIds /\ sanitizedId \notin validProductIds THEN FailId("Invalid product ID")
  ELSE IF Len(sanitizedId) > MaxProductIdLength THEN FailId("Product ID exceeds maximum length")
  ELSE IF dangerousPatterns(sanitizedId) THEN FailId("Invalid characters in product ID")
  ELSE [valid |-> TRUE, error |-> "", sanitized |-> sanitizedId]

\* validateProductId(productId, validProductIds); checkIds is false when no
\* set of valid ids is passed
validateProductId(productId, checkIds, validProductIds) ==
  IF ~Truthy(productId) \/ TypeOf(productId) # "string"
    THEN FailId("Product ID must be a non-empty string")
    ELSE validateSanitizedId(Trim(productId.s), checkIds, validProductIds)

FailNum(msg) == [valid |-> FALSE, error |-> msg, sanitized |-> 0]

\* validateQuantity without the integer check: the floor is returned
validateNumQuantityFloors(numQuantity, maxQuantity) ==
  IF NotFinite(numQuantity) THEN FailNum("Quantity must be a valid number")
  ELSE IF numQuantity.n < 0 THEN FailNum("Quantity cannot be negative")
  ELSE IF numQuantity.n = 0
    THEN FailNum("Quantity cannot be zero. Use remove endpoint to delete items")
  ELSE IF numQuantity.n > maxQuantity * Scale
    THEN FailNum("Quantity cannot exceed 999")
  ELSE [valid |-> TRUE, error |-> "", sanitized |-> Floor(numQuantity.n)]

\* validateQuantity from numQuantity = Number(quantity) on
validateNumQuantity(numQuantity, maxQuantity) ==
  IF NotFinite(numQuantity) THEN FailNum("Quantity must be a valid number")
  ELSE IF numQuantity.n < 0 THEN FailNum("Quantity cannot be negative")
  ELSE IF numQuantity.n = 0
    THEN FailNum("Quantity cannot be zero. Use remove endpoint to delete items")
  ELSE IF numQuantity.n > maxQuantity * Scale
    THEN FailNum(IF maxQuantity = 999 THEN "Quantity cannot exceed 999"
                 ELSE "Quantity cannot exceed maxQuantity")
  ELSE IF Floor(numQuantity.n) # numQuantity.n THEN FailNum("Quantity must be an integer")
  ELSE [valid |-> TRUE, error |-> "", sanitized |-> Floor(numQuantity.n)]

\* validateQuantity(quantity, maxQuantity)
validateQuantityMax(quantity, maxQuantity) ==
  IF quantity.t \in {"undefined", "null"} THEN FailNum("Quantity is required")
  ELSE validateNumQuantity(ToNumber(quantity), maxQuantity)

\* validateQuantity(quantity) with the default maximum
validateQuantity(quantity) == validateQuantityMax(quantity, MaxQuantity)

\* validatePrice from numPrice = Number(price) on
validateNumPrice(numPrice) ==
  IF NotFinite(numPrice) THEN FailNum("Price must be a valid number")
  ELSE IF numPrice.n < 0 THEN FailNum("Price cannot be negative")
  ELSE IF numPrice.n > MaxPrice * Scale THEN FailNum("Price exceeds maximum allowed value")
  ELSE [valid |-> TRUE, error |-> "", sanitized |-> Round2(numPrice.n)]

\* validatePrice(price)
validatePrice(price) ==
  IF price.t \in {"undefined", "null"} THEN FailNum("Price is required")
  ELSE validateNumPrice(ToNumber(price))

\* validateProductName from the trimmed name on
validateSanitizedName(sanitized) ==
  IF Len(sanitized) = 0 THEN FailId("Product name cannot be empty")
  ELSE IF Len(sanitized) > MaxNameLength THEN FailId("Product name exceeds maximum length")
  ELSE [valid |-> TRUE, error |-> "", sanitized |-> sanitized]

\* validateProductName(name)
validateProductName(name) ==
  IF ~Truthy(name) \/ TypeOf(name) # "string"
    THEN FailId("Product name must be a non-empty string")
    ELSE validateSanitizedName(Trim(name.s))

\* a raw element of a submitted item list: isObject is false for an element
\* that is null or not an object
RawItem(id, nm, pr, q, im) ==
  [isObject |-> TRUE, productId |-> id, name |-> nm, price |-> pr,
   quantity |-> q, image |-> im]

NotAnObject ==
  [isObject |-> FALSE, productId |-> Undefined, name |-> Undefined,
   price |-> Undefined, quantity |-> Undefined, image |-> Undefined]

NoItem ==
  [productId |-> <<>>, name |-> <<>>, price |-> 0, quantity |-> 0, image |-> Null]

FailItem(msg) == [valid |-> FALSE, error |-> msg, sanitized |-> NoItem]

\* the image validateCartItem keeps: trimmed, null when absent or empty
sanitizedImage(image) ==
  IF image.t \notin {"undefined", "null"} /\ Len(Trim(image.s)) > 0
    THEN Str(Trim(image.s)) ELSE Null

\* validateCartItem once the four field validations are made
validateCartItemFields(item, productIdValidation, nameValidation, priceValidation, quantityValidation) ==
  IF ~productIdValidation.valid THEN FailItem(productIdValidation.error)
  ELSE IF ~nameValidation.valid THEN FailItem(nameValidation.error)
  ELSE IF ~priceValidation.valid THEN FailItem(priceValidation.error)
  ELSE IF ~quantityValidation.valid THEN FailItem(quantityValidation.error)
  ELSE IF /\ item.image.t \notin {"undefined", "null"}
          /\ (TypeOf(item.image) # "string" \/ Len(item.image.s) > MaxImageLength)
    THEN FailItem("Invalid image format")
  ELSE [valid |-> TRUE, error |-> "",
        sanitized |-> [productId |-> productIdValidation.sanitized,
                       name |-> nameValidation.sanitized,
                       price |-> priceValidation.sanitized,
                       quantity |-> quantityValidation.sanitized,
                       image |-> sanitizedImage(item.image)]]

\* validateCartItem(item, validProductIds)
validateCartItem(item, validProductIds) ==
  IF ~item.isObject THEN FailItem("Cart item must be an object")
  ELSE validateCartItemFields(
         item,
         validateProductId(item.productId, TRUE, validProductIds),
         validateProductName(item.name),
         validatePrice(item.price),
         validateQuantity(IF item.quantity.t # "undefined" THEN item.quantity ELSE Num(1)))

\* a submitted items value: isArray is false when it is not an array
RawList(elems) == [isArray |-> TRUE, elems |-> elems]
NotAnArray == [isArray |-> FALSE, elems |-> <<>>]

ProductIdsOf(items) == {items[i].productId : i \in 1..Len(items)}

FailItems(msg, index, id) ==
  [valid |-> FALSE, error |-> msg, index |-> index, id |-> id, sanitized |-> <<>>]

\* the loop body that skips an element that fails instead of returning
\* the loop turn without the check for a productId seen before
validateCartItemsTurnNoDup(sanitizedItems, index, validation) ==
  IF ~validation.valid THEN FailItems(validation.error, index, <<>>)
  ELSE [valid |-> TRUE, error |-> "", index |-> -1, id |-> <<>>,
        sanitized |-> Append(sanitizedItems, validation.sanitized)]

validateCartItemsTurnSkip(sanitizedItems, index, validation) ==
  IF ~validation.valid
    THEN [valid |-> TRUE, error |-> "", index |-> -1, id |-> <<>>,
          sanitized |-> sanitizedItems]
  ELSE IF validation.sanitized.productId \in ProductIdsOf(sanitizedItems)
    THEN FailItems("Duplicate product ID", -1, validation.sanitized.productId)
  ELSE [valid |-> TRUE, error |-> "", index |-> -1, id |-> <<>>,
        sanitized |-> Append(sanitizedItems, validation.sanitized)]

\* one turn of the loop of validateCartItems: validation is the result for
\* the element at 0-based position index, sanitizedItems the items pushed so
\* far; the result is a failure, or the items pushed after this turn
validateCartItemsTurn(sanitizedItems, index, validation) ==
  IF ~validation.valid THEN FailItems(validation.error, index, <<>>)
  ELSE IF validation.sanitized.productId \in ProductIdsOf(sanitizedItems)
    THEN FailItems("Duplicate product ID", -1, validation.sanitized.productId)
  ELSE [valid |-> TRUE, error |-> "", index |-> -1, id |-> <<>>,
        sanitized |-> Append(sanitizedItems, validation.sanitized)]

\* the loop of validateCartItems over elems[i..], after the turns before i
\* gave the result acc
RECURSIVE validateCartItemsFrom(_, _, _, _)
validateCartItemsFrom(elems, i, acc, validProductIds) ==
  IF ~acc.valid \/ i > Len(elems) THEN acc
  ELSE validateCartItemsFrom(
         elems, i + 1,
         validateCartItemsTurn(acc.sanitized, i - 1,
                               validateCartItem(elems[i], validProductIds)),
         validProductIds)

\* validateCartItems(items, validProductIds)
validateCartItems(items, validProductIds) ==
  IF ~items.isArray THEN FailItems("Items must be an array", -1, <<>>)
  ELSE IF Len(items.elems) > MaxCartItems
    THEN FailItems("Cart cannot contain more than 100 items", -1, <<>>)
  ELSE validateCartItemsFrom(
         items.elems, 1,
         [valid |-> TRUE, error |-> "", index |-> -1, id |-> <<>>, sanitized |-> <<>>],
         validProductIds)

(***************************************************************************)
(* State.                                                                  *)
(***************************************************************************)
VARIABLES
  carts,   \* the carts table: cart id -> row (exists is false for no row)
  now,     \* Date.now(), in milliseconds
  req,     \* the last request received
  resp,    \* the response to it
  nreq,    \* number of requests received
  prev,    \* history: the carts table before the last request or timer
  zeroed,  \* history: the <<cart id, product id>> pairs that an update with
           \* quantity 0 removed and no later add or sync has sent again
  pc,      \* the process: "startup" before app.listen, "listening" after
           \* it, "crashed" once an exception reached the top level
  inflight, \* the requests received, each one queued, running (its handler
           \* has read the cart) or done; used where the two store calls of
           \* a handler are separate steps
  args,    \* the arguments of the last direct call of a validator
  result,  \* what that call returned
  local,   \* the browser's localStorage entry: the item list it holds
  calls,   \* the CartManager calls of the browser that have not returned
  removed  \* history: the product ids a call of the browser has removed
           \* from the server cart, with no add issued for them since

vars == <<carts, now, req, resp, nreq, prev, zeroed, pc, inflight, args, result, local, calls, removed>>

\* no validator was called directly
NoProbe == args = <<>> /\ result = <<>>

\* no browser is open
NoClient == local = <<>> /\ calls = <<>> /\ removed = {}

CartIds == {"A", "B"}

\* 24 * 60 * 60 * 1000
DayMs == 86400000

NoRow ==
  [exists |-> FALSE, items |-> <<>>, lastUpdated |-> 0, createdAt |-> 0,
   itemCount |-> 0]

(***************************************************************************)
(* CartDatabase.                                                           *)
(***************************************************************************)
\* saveCart whose ON CONFLICT branch leaves item_count alone
\* an UPDATE without its WHERE cart_id = ?: the data of every row is set
saveCartEveryRow(store, cartId, cartData, time) ==
  [c \in DOMAIN store |->
     IF c = cartId \/ store[c].exists
       THEN [exists |-> TRUE, items |-> cartData, lastUpdated |-> time,
             createdAt |-> IF store[c].exists THEN store[c].createdAt ELSE time,
             itemCount |-> Len(cartData)]
       ELSE store[c]]

saveCartStaleCount(store, cartId, cartData, time) ==
  [store EXCEPT ![cartId] =
    IF store[cartId].exists
      THEN [@ EXCEPT !.items = cartData, !.lastUpdated = time]
      ELSE [exists |-> TRUE, items |-> cartData, lastUpdated |-> time,
            createdAt |-> time, itemCount |-> Len(cartData)]]

\* saveCart written as INSERT OR REPLACE: created_at is set on every save
saveCartReplace(store, cartId, cartData, time) ==
  [store EXCEPT ![cartId] =
    [exists |-> TRUE, items |-> cartData, lastUpdated |-> time,
     createdAt |-> time, itemCount |-> Len(cartData)]]

\* saveCart(cartId, cartData): INSERT ... ON CONFLICT(cart_id) DO UPDATE
saveCart(store, cartId, cartData, time) ==
  [store EXCEPT ![cartId] =
    IF store[cartId].exists
      THEN [@ EXCEPT !.items = cartData, !.lastUpdated = time,
                     !.itemCount = Len(cartData)]
      ELSE [exists |-> TRUE, items |-> cartData, lastUpdated |-> time,
            createdAt |-> time, itemCount |-> Len(cartData)]]

\* getCart(cartId): the row, or the row with exists false for null
getCart(store, cartId) == store[cartId]

\* the rows of the carts table
Rows(store) == { c \in DOMAIN store : store[c].exists }

\* SELECT SUM(item_count) FROM carts, over the rows S; 0 stands for the NULL
\* of an empty table, which getStatistics turns into 0 itself
RECURSIVE SumItemCount(_, _)
SumItemCount(store, S) ==
  IF S = {} THEN 0
  ELSE LET c == CHOOSE x \in S : TRUE
       IN store[c].itemCount + SumItemCount(store, S \ {c})

\* SELECT MIN(last_updated) FROM carts; 0 stands for the NULL of an empty
\* table
MinLastUpdated(store) ==
  IF Rows(store) = {} THEN 0
  ELSE CHOOSE t \in { store[c].lastUpdated : c \in Rows(store) } :
         \A c \in Rows(store) : t <= store[c].lastUpdated

\* getStatistics(): the three aggregates, each through "|| 0" or "|| null";
\* its catch block returns the zero result instead of throwing. threw is
\* whether the call raised an error to its caller.
getStatistics(store, fault) ==
  IF fault = "get"
    THEN [threw |-> FALSE, totalCarts |-> 0, totalItems |-> 0,
          hasOldest |-> FALSE, oldestCartTimestamp |-> 0]
    ELSE [threw |-> FALSE, totalCarts |-> Cardinality(Rows(store)),
          totalItems |-> SumItemCount(store, Rows(store)),
          hasOldest |-> MinLastUpdated(store) # 0,
          oldestCartTimestamp |-> MinLastUpdated(store)]

\* the delete written with created_at in the place of last_updated
cleanupExpiredCartsByCreation(store, days, time) ==
  [c \in DOMAIN store |->
    IF store[c].exists /\ store[c].createdAt < time - (days * DayMs)
      THEN NoRow ELSE store[c]]

\* the delete written with last_updated <= cutoff
cleanupExpiredCartsInclusive(store, days, time) ==
  [c \in DOMAIN store |->
    IF store[c].exists /\ store[c].lastUpdated <= time - (days * DayMs)
      THEN NoRow ELSE store[c]]

\* cleanupExpiredCarts(days): DELETE FROM carts WHERE last_updated < cutoff
cleanupExpiredCarts(store, days, time) ==
  LET cutoffTime == time - (days * DayMs) IN
  [c \in DOMAIN store |->
    IF store[c].exists /\ store[c].lastUpdated < cutoffTime THEN NoRow ELSE store[c]]

\* result.changes of that delete
cleanupChanges(store, days, time) ==
  Cardinality({c \in DOMAIN store :
    store[c].exists /\ ~cleanupExpiredCarts(store, days, time)[c].exists})

(***************************************************************************)
(* Requests and responses.                                                 *)
(***************************************************************************)
\* fault: the CartDatabase call of this request that throws ("none", "get"
\* or "save")
Request(op, cartId, fault, productId, name, price, quantity, image, items) ==
  [op |-> op, cartId |-> cartId, fault |-> fault, productId |-> productId,
   name |-> name, price |-> price, quantity |-> quantity, image |-> image,
   items |-> items, days |-> Undefined]

NoRequest ==
  Request("none", "A", "none", Undefined, Undefined, Undefined, Undefined,
          Undefined, NotAnArray)

\* status and JSON body of a response; index and id are the position and
\* product id an error message of validateCartItems embeds; hasItems,
\* hasLastUpdated and hasItemCount are false for a key that is absent or null
Response(status, error, index, id, hasItems, items) ==
  [status |-> status, error |-> error, index |-> index, id |-> id,
   hasItems |-> hasItems, items |-> items,
   hasLastUpdated |-> FALSE, lastUpdated |-> 0,
   hasItemCount |-> FALSE, itemCount |-> 0, deletedCarts |-> 0,
   totalCarts |-> 0, totalItems |-> 0,
   hasOldest |-> FALSE, oldestCartTimestamp |-> 0]

Error(status, msg) == Response(status, msg, -1, <<>>, FALSE, <<>>)
Success(items) == Response(200, "", -1, <<>>, TRUE, items)

Outcome(response, store) == [resp |-> response, store |-> store]

\* items.findIndex(item => item.productId === id), 1-based; 0 for -1
FindIndex(items, id) ==
  IF \E i \in 1..Len(items) : items[i].productId = id
    THEN CHOOSE i \in 1..Len(items) :
           /\ items[i].productId = id
           /\ \A j \in 1..(i - 1) : items[j].productId # id
    ELSE 0

(***************************************************************************)
(* GET /api/cart                                                           *)
(***************************************************************************)
getCartFound(cart, store) ==
  IF ~cart.exists
    THEN Outcome(Success(<<>>), store)
    ELSE Outcome([Success(cart.items) EXCEPT
                    !.hasLastUpdated = TRUE, !.lastUpdated = cart.lastUpdated,
                    !.hasItemCount = TRUE, !.itemCount = cart.itemCount],
                 store)

getCartHandler(store, r) ==
  IF r.fault = "get" THEN Outcome(Error(500, "Failed to get cart"), store)
  ELSE getCartFound(getCart(store, r.cartId), store)

(***************************************************************************)
(* GET /api/admin/stats                                                    *)
(***************************************************************************)
statsResponse(stats) ==
  [Response(200, "", -1, <<>>, FALSE, <<>>) EXCEPT
     !.totalCarts = stats.totalCarts, !.totalItems = stats.totalItems,
     !.hasOldest = stats.hasOldest,
     !.oldestCartTimestamp = stats.oldestCartTimestamp]

statsHandler(store, r) ==
  IF getStatistics(store, r.fault).threw
    THEN Outcome(Error(500, "Failed to get statistics"), store)
    ELSE Outcome(statsResponse(getStatistics(store, r.fault)), store)

\* cartDb.saveCart(req.cartId, items); res.json({ success: true, items }),
\* or the catch block with message msg when saveCart throws
\* a save whose failure is swallowed: the route answers as if it had stored
saveAndRespondSwallow(store, r, time, items, msg) ==
  IF r.fault = "save" THEN Outcome(Success(items), store)
  ELSE Outcome(Success(items), saveCart(store, r.cartId, items, time))

saveAndRespond(store, r, time, items, msg) ==
  IF r.fault = "save" THEN Outcome(Error(500, msg), store)
  ELSE Outcome(Success(items), saveCart(store, r.cartId, items, time))

\* cart ? cart.items : []
ItemsOrEmpty(cart) == IF cart.exists THEN cart.items ELSE <<>>

(***************************************************************************)
(* POST /api/cart/add                                                      *)
(***************************************************************************)
\* the image stored by add
addImage(image) ==
  IF Truthy(image) /\ TypeOf(image) = "string" /\ Len(image.s) <= MaxImageLength
    THEN Str(Trim(image.s)) ELSE Null

\* the assignment that skips the write
SetQuantityDropped(items, idx, q) == items

\* the item list after the quantity of items[idx] is set to q
SetQuantity(items, idx, q) == [items EXCEPT ![idx].quantity = q]

\* the branch of add for an item already in the cart, at existingItemIndex
addExisting(store, r, time, items, existingItemIndex, totalQuantityValidation) ==
  IF ~totalQuantityValidation.valid
    THEN Outcome(Error(400, totalQuantityValidation.error), store)
    ELSE saveAndRespond(store, r, time,
                        SetQuantity(items, existingItemIndex,
                                    totalQuantityValidation.sanitized),
                        "Failed to add item to cart")

\* add from the findIndex on: item is the new item made of the validated data
addToItems(store, r, time, items, existingItemIndex, item) ==
  IF existingItemIndex > 0
    THEN addExisting(store, r, time, items, existingItemIndex,
                     validateQuantity(Milli(items[existingItemIndex].quantity
                                            + item.quantity)))
    ELSE saveAndRespond(store, r, time, Append(items, item),
                        "Failed to add item to cart")

\* add once the four validations are made
addValidated(store, r, time, productIdValidation, quantityValidation, priceValidation, nameValidation) ==
  IF ~productIdValidation.valid THEN Outcome(Error(400, productIdValidation.error), store)
  ELSE IF ~quantityValidation.valid THEN Outcome(Error(400, quantityValidation.error), store)
  ELSE IF ~priceValidation.valid THEN Outcome(Error(400, priceValidation.error), store)
  ELSE IF ~nameValidation.valid THEN Outcome(Error(400, nameValidation.error), store)
  ELSE IF r.fault = "get" THEN Outcome(Error(500, "Failed to add item to cart"), store)
  ELSE addToItems(store, r, time,
                  ItemsOrEmpty(getCart(store, r.cartId)),
                  FindIndex(ItemsOrEmpty(getCart(store, r.cartId)),
                            productIdValidation.sanitized),
                  [productId |-> productIdValidation.sanitized,
                   name |-> nameValidation.sanitized,
                   price |-> priceValidation.sanitized,
                   quantity |-> quantityValidation.sanitized,
                   image |-> addImage(r.image)])

\* a body without a quantity, with no default put in its place
defaultQuantityMissing(quantity) == quantity

\* the default of the destructuring { quantity = 1 } = req.body
defaultQuantity(quantity) == IF quantity.t = "undefined" THEN Num(1) ELSE quantity

addHandler(store, r, time) ==
  IF ~Truthy(r.productId) \/ ~Truthy(r.name) \/ r.price.t = "undefined"
    THEN Outcome(Error(400, "Missing required fields: productId, name, price"), store)
  ELSE addValidated(store, r, time,
                    validateProductId(r.productId, TRUE, getValidProductIds),
                    validateQuantity(defaultQuantity(r.quantity)),
                    validatePrice(r.price),
                    validateProductName(r.name))

(***************************************************************************)
(* PUT /api/cart/update                                                    *)
(***************************************************************************)
\* items.splice(idx), which removes every item from idx on
SpliceToEnd(items, idx) == SubSeq(items, 1, idx - 1)

\* items.splice(idx, 1)
Splice(items, idx) == SubSeq(items, 1, idx - 1) \o SubSeq(items, idx + 1, Len(items))

\* the branch of update for a quantity that is not 0
\* the update that adds the quantity to the stored one instead of setting it
updateQuantityAdds(store, r, time, items, itemIndex, quantityValidation) ==
  IF ~quantityValidation.valid
    THEN Outcome(Error(400, quantityValidation.error), store)
    ELSE saveAndRespond(store, r, time,
                        SetQuantity(items, itemIndex,
                                    items[itemIndex].quantity
                                      + quantityValidation.sanitized),
                        "Failed to update cart")

updateQuantity(store, r, time, items, itemIndex, quantityValidation) ==
  IF ~quantityValidation.valid
    THEN Outcome(Error(400, quantityValidation.error), store)
    ELSE saveAndRespond(store, r, time,
                        SetQuantity(items, itemIndex, quantityValidation.sanitized),
                        "Failed to update cart")

\* update that saves the list as it is when the item is not in the cart
updateItemsNoNotFound(store, r, time, items, itemIndex) ==
  IF itemIndex = 0
    THEN saveAndRespond(store, r, time, items, "Failed to update cart")
  ELSE IF r.quantity = Milli(0)
    THEN saveAndRespond(store, r, time, Splice(items, itemIndex),
                        "Failed to update cart")
    ELSE updateQuantity(store, r, time, items, itemIndex,
                        validateQuantity(r.quantity))

\* update from the findIndex on
updateItems(store, r, time, items, itemIndex) ==
  IF itemIndex = 0 THEN Outcome(Error(404, "Item not found in cart"), store)
  ELSE IF r.quantity = Milli(0)
    THEN saveAndRespond(store, r, time, Splice(items, itemIndex),
                        "Failed to update cart")
    ELSE updateQuantity(store, r, time, items, itemIndex,
                        validateQuantity(r.quantity))

\* update once the product id is validated
updateValidated(store, r, time, productIdValidation) ==
  IF ~productIdValidation.valid THEN Outcome(Error(400, productIdValidation.error), store)
  ELSE IF NumLess(ToNumber(r.quantity), Milli(0))
    THEN Outcome(Error(400, "Quantity cannot be negative"), store)
  ELSE IF r.fault = "get" THEN Outcome(Error(500, "Failed to update cart"), store)
  ELSE IF ~getCart(store, r.cartId).exists
    THEN Outcome(Error(404, "Cart not found"), store)
  ELSE updateItems(store, r, time, getCart(store, r.cartId).items,
                   FindIndex(getCart(store, r.cartId).items,
                             productIdValidation.sanitized))

updateHandler(store, r, time) ==
  IF ~Truthy(r.productId) \/ r.quantity.t = "undefined"
    THEN Outcome(Error(400, "Missing required fields: productId, quantity"), store)
  ELSE updateValidated(store, r, time,
                       validateProductId(r.productId, TRUE, getValidProductIds))

(***************************************************************************)
(* DELETE /api/cart/remove/:productId                                      *)
(***************************************************************************)
\* the filter written with === : it keeps the matching item only
FilterOutKeepsMatch(items, id) == SelectSeq(items, LAMBDA item : item.productId = id)

\* items.filter(item => item.productId !== id)
FilterOut(items, id) == SelectSeq(items, LAMBDA item : item.productId # id)

\* remove once the product id is validated
\* remove that looks the cart up before it checks the product id
removeValidatedGetFirst(store, r, time, productIdValidation) ==
  IF r.fault = "get" THEN Outcome(Error(500, "Failed to remove item from cart"), store)
  ELSE IF ~productIdValidation.valid THEN Outcome(Error(400, productIdValidation.error), store)
  ELSE IF ~getCart(store, r.cartId).exists
    THEN Outcome(Error(404, "Cart not found"), store)
  ELSE saveAndRespond(store, r, time,
                      FilterOut(getCart(store, r.cartId).items,
                                productIdValidation.sanitized),
                      "Failed to remove item from cart")

removeValidated(store, r, time, productIdValidation) ==
  IF ~productIdValidation.valid THEN Outcome(Error(400, productIdValidation.error), store)
  ELSE IF r.fault = "get" THEN Outcome(Error(500, "Failed to remove item from cart"), store)
  ELSE IF ~getCart(store, r.cartId).exists
    THEN Outcome(Error(404, "Cart not found"), store)
  ELSE saveAndRespond(store, r, time,
                      FilterOut(getCart(store, r.cartId).items,
                                productIdValidation.sanitized),
                      "Failed to remove item from cart")

removeHandler(store, r, time) ==
  removeValidated(store, r, time,
                  validateProductId(r.productId, TRUE, getValidProductIds))

(***************************************************************************)
(* DELETE /api/cart/clear                                                  *)
(***************************************************************************)
\* clear written with cartDb.deleteCart(req.cartId)
clearHandlerDeletes(store, r, time) ==
  IF r.fault = "save" THEN Outcome(Error(500, "Failed to clear cart"), store)
  ELSE Outcome(Success(<<>>), [store EXCEPT ![r.cartId] = NoRow])

clearHandler(store, r, time) ==
  IF r.fault = "save" THEN Outcome(Error(500, "Failed to clear cart"), store)
  ELSE Outcome(Success(<<>>), saveCart(store, r.cartId, <<>>, time))

(***************************************************************************)
(* The cleanup on startup and the one of setInterval.                      *)
(***************************************************************************)
\* the run without try and catch: the exception ends the process
cleanupUncaught(store, fault, time) ==
  IF fault = "none"
    THEN [store |-> cleanupExpiredCarts(store, 7, time), pc |-> "listening"]
    ELSE [store |-> store, pc |-> "crashed"]

\* try { cartDb.cleanupExpiredCarts(7) } catch (error) { console.error(..) }
\* and what follows it: the store and the state of the process
cleanupCaught(store, fault, time) ==
  IF fault = "none"
    THEN [store |-> cleanupExpiredCarts(store, 7, time), pc |-> "listening"]
    ELSE [store |-> store, pc |-> "listening"]

(***************************************************************************)
(* POST /api/admin/cleanup                                                 *)
(***************************************************************************)
\* req.body.days || 7, in days; the day counts sent are whole numbers
retentionDays(days) == IF Truthy(days) THEN ToNumber(days).n \div Scale ELSE 7

\* cleanup answered with the number of deleted rows
adminCleanupHandler(store, r, time) ==
  IF r.fault = "save" THEN Outcome(Error(500, "Failed to cleanup carts"), store)
  ELSE Outcome([Success(<<>>) EXCEPT
                  !.hasItems = FALSE,
                  !.deletedCarts = cleanupChanges(store, retentionDays(r.days), time)],
               cleanupExpiredCarts(store, retentionDays(r.days), time))

(***************************************************************************)
(* POST /api/cart/sync                                                     *)
(***************************************************************************)
\* Map.prototype.set on a Map kept as the sequence of its values in
\* insertion order, keyed by productId: an existing key keeps its position
MapSet(m, item) ==
  IF FindIndex(m, item.productId) > 0
    THEN [m EXCEPT ![FindIndex(m, item.productId)] = item]
    ELSE Append(m, item)

RECURSIVE MapOfItems(_, _)
MapOfItems(m, items) ==
  IF Len(items) = 0 THEN m ELSE MapOfItems(MapSet(m, Head(items)), Tail(items))

\* Math.min in the place of Math.max
MaxAsMin(a, b) == IF a <= b THEN a ELSE b

\* Math.max
Max(a, b) == IF a >= b THEN a ELSE b

\* the merge that puts a new client item in front of the items held
MergeClientItemInFront(m, clientItem) ==
  IF FindIndex(m, clientItem.productId) > 0
    THEN SetQuantity(m, FindIndex(m, clientItem.productId),
                     Max(m[FindIndex(m, clientItem.productId)].quantity,
                         clientItem.quantity))
    ELSE <<clientItem>> \o m

\* the merge that adds the client quantity to the server quantity
MergeClientItemSum(m, clientItem) ==
  IF FindIndex(m, clientItem.productId) > 0
    THEN SetQuantity(m, FindIndex(m, clientItem.productId),
                     m[FindIndex(m, clientItem.productId)].quantity
                       + clientItem.quantity)
    ELSE Append(m, clientItem)

\* one step of the forEach over the client items
MergeClientItem(m, clientItem) ==
  IF FindIndex(m, clientItem.productId) > 0
    THEN SetQuantity(m, FindIndex(m, clientItem.productId),
                     Max(m[FindIndex(m, clientItem.productId)].quantity,
                         clientItem.quantity))
    ELSE Append(m, clientItem)

RECURSIVE MergeClientItems(_, _)
MergeClientItems(m, clientItems) ==
  IF Len(clientItems) = 0 THEN m
  ELSE MergeClientItems(MergeClientItem(m, Head(clientItems)), Tail(clientItems))

\* Array.from(mergedItemsMap.values())
mergedItems(serverItems, clientItems) ==
  MergeClientItems(MapOfItems(<<>>, serverItems), clientItems)

\* sync once the submitted items are validated
syncValidated(store, r, time, itemsValidation) ==
  IF ~itemsValidation.valid
    THEN Outcome(Response(400, itemsValidation.error, itemsValidation.index,
                          itemsValidation.id, FALSE, <<>>), store)
  ELSE IF r.fault = "get" THEN Outcome(Error(500, "Failed to sync cart"), store)
  ELSE saveAndRespond(store, r, time,
                      mergedItems(ItemsOrEmpty(getCart(store, r.cartId)),
                                  itemsValidation.sanitized),
                      "Failed to sync cart")

\* sync validating against a set of ids wider than the catalog's
syncHandlerWiderIds(store, r, time) ==
  syncValidated(store, r, time,
                validateCartItems(r.items, getValidProductIds \cup {<<"9", "9">>}))

syncHandler(store, r, time) ==
  syncValidated(store, r, time, validateCartItems(r.items, getValidProductIds))

(***************************************************************************)
(* Inputs of the requests.                                                 *)
(***************************************************************************)
Rep(c, n) == [i \in 1..n |-> c]

Laptop == products[<<"1">>].name
Smartphone == products[<<"2">>].name
Notebook == <<" ", "N", "o", "t", "e", "b", "o", "o", "k", " ">>

Body(id, nm, pr, q, im) ==
  [productId |-> id, name |-> nm, price |-> pr, quantity |-> q, image |-> im]

\* product ids that validateProductId rejects
BadProductIds == { Str(<<"9", "9">>), Str(<<" ">>), Num(1), Str(<<"9", ";">>) }

BadNames == { Str(<<" ">>), Str(Rep("a", MaxNameLength + 1)) }

BadPrices == { Null, Num(-1), Milli(MaxPrice * Scale + 1) }

BadQuantities ==
  { Num(0), Num(-1), Num(MaxQuantity + 1), Milli(1500), Null, Str(<<"a", "b", "c">>) }

\* the bodies sent for every cart
CoreAddBodies ==
  { Body(Str(<<"1">>), Str(Laptop), Milli(999990), Undefined, Undefined),
    Body(Str(<<"2">>), Str(Smartphone), Milli(699990), Str(<<" ", "3">>), Str(<<"x">>)) }

AddBodies ==
  CoreAddBodies
  \cup { Body(Str(<<"1">>), Str(Laptop), Milli(999990), q, Undefined) :
           q \in {Num(MaxQuantity)} \cup BadQuantities }
  \cup { Body(Str(<<" ", "1", " ">>), Str(Notebook), Milli(19999), True, Str(<<" ">>)) }
  \cup { Body(id, Str(Laptop), Milli(999990), Undefined, Undefined) : id \in BadProductIds }
  \cup { Body(Str(<<"9", "9">>), Undefined, Milli(999990), Undefined, Undefined) }
  \cup { Body(Str(<<"1">>), nm, Milli(999990), Undefined, Undefined) : nm \in BadNames }
  \cup { Body(Str(<<"1">>), Str(Laptop), pr, Undefined, Undefined) : pr \in BadPrices }

CoreUpdateBodies == { Body(Str(<<"1">>), Undefined, Undefined, Num(0), Undefined) }

UpdateBodies ==
  CoreUpdateBodies
  \cup { Body(Str(<<"1">>), Undefined, Undefined, q, Undefined) :
           q \in {Num(3), Str(<<"0">>), Num(-1), Num(MaxQuantity + 1), Milli(1500)} }
  \cup { Body(Str(<<" ", "2">>), Undefined, Undefined, Num(0), Undefined),
         Body(Str(<<"9", "9">>), Undefined, Undefined, Num(3), Undefined),
         Body(Str(<<"2">>), Undefined, Undefined, Str(<<"-", "1">>), Undefined) }

\* the :productId parameter of the route is a non-empty string
CoreRemoveIds == { Str(<<"1">>) }
RemoveIds == CoreRemoveIds \cup { Str(<<" ", "2">>), Str(<<"9", "9">>) }

g1 == RawItem(Str(<<"1">>), Str(Laptop), Milli(999990), Num(1), Undefined)
g1b == RawItem(Str(<<" ", "1", " ">>), Str(Notebook), Milli(19999), Num(5), Str(<<" ">>))
g2 == RawItem(Str(<<"2">>), Str(Smartphone), Milli(699990), Undefined, Str(<<" ", "x">>))

BadRawItems ==
  { NotAnObject,
    RawItem(Str(<<"9", "9">>), Str(Laptop), Milli(999990), Num(1), Undefined),
    RawItem(Str(<<"1">>), Str(Laptop), Num(-1), Num(1), Undefined),
    RawItem(Str(<<"1">>), Str(Laptop), Milli(999990), Num(0), Undefined),
    RawItem(Str(<<"1">>), Str(Laptop), Milli(999990), Num(1), Num(1)) }

CoreSyncLists == { RawList(<<g2, g1>>) }

SyncLists ==
  CoreSyncLists
  \cup { RawList(<<>>), RawList(<<g1b>>), RawList(<<g2>>), RawList(<<g1b, g2>>),
         RawList(<<g1, g1b>>), NotAnArray, RawList(Rep(g1, MaxCartItems + 1)) }
  \cup { RawList(<<g2, b>>) : b \in BadRawItems }

\* the days of the body of an admin cleanup
CleanupDays == { Undefined, Num(0), Num(1), Num(6) }

\* the CartDatabase call that throws in a request
Faults == {"get", "save"}

(***************************************************************************)
(* Actions.                                                                *)
(***************************************************************************)
NoResponse == Error(0, "")

\* the table of a database file without rows
EmptyCarts == [c \in CartIds |-> NoRow]

\* the store after an add of body b for cart c at time time
AfterAddAt(store, c, b, time) ==
  addHandler(store,
             Request("add", c, "none", b.productId, b.name, b.price, b.quantity,
                     b.image, NotAnArray),
             time).store

\* the store after an add of body b for cart c at time 0
AfterAdd(store, c, b) == AfterAddAt(store, c, b, 0)

LaptopBody(q) == Body(Str(<<"1">>), Str(Laptop), Milli(999990), q, Undefined)
SmartphoneBody == Body(Str(<<"2">>), Str(Smartphone), Milli(699990), Str(<<" ", "3">>), Str(<<"x">>))

\* carts.db survives a restart of the server: the tables the server may
\* start with, each one written by earlier add requests: those of cart "A"
\* two days before the start, the one of cart "B" right before it
StoredCarts ==
  { EmptyCarts,
    AfterAdd(AfterAdd(EmptyCarts, "A", LaptopBody(Undefined)), "A", LaptopBody(Undefined)),
    AfterAddAt(AfterAdd(AfterAdd(EmptyCarts, "A", LaptopBody(Num(MaxQuantity))),
                      "A", SmartphoneBody),
               "B", SmartphoneBody, 2 * DayMs) }

\* the server starts: new CartDatabase() opens carts.db
Init ==
  /\ carts \in StoredCarts
  /\ now = 2 * DayMs
  /\ req = NoRequest
  /\ resp = NoResponse
  /\ nreq = 0
  /\ prev = carts
  /\ zeroed = {}
  /\ pc = "startup"
  /\ inflight = <<>>
  /\ NoProbe
  /\ NoClient

\* the trimmed product ids of the elements of a submitted item list
SentIds(items) ==
  {Trim(items.elems[i].productId.s) : i \in 1..Len(items.elems)}

\* zeroed after request r was answered with status
ZeroedAfter(r, status) ==
  CASE status = 200 /\ r.op = "update" /\ r.quantity = Num(0) ->
         zeroed \cup {<<r.cartId, Trim(r.productId.s)>>}
    [] status = 200 /\ r.op = "add" ->
         zeroed \ {<<r.cartId, Trim(r.productId.s)>>}
    [] status = 200 /\ r.op = "sync" ->
         zeroed \ {<<r.cartId, id>> : id \in SentIds(r.items)}
    [] OTHER -> zeroed

Handle(r, outcome) ==
  /\ pc = "listening"
  /\ nreq < MaxRequests
  /\ nreq' = nreq + 1
  /\ req' = r
  /\ resp' = outcome.resp
  /\ carts' = outcome.store
  /\ prev' = carts
  /\ zeroed' = ZeroedAfter(r, outcome.resp.status)
  /\ UNCHANGED <<now, pc, inflight, args, result, local, calls, removed>>

GetCart ==
  \E c \in CartIds, f \in {"none", "get"} :
    /\ c # "A" => f = "none"
    /\ LET r == Request("get", c, f, Undefined, Undefined, Undefined, Undefined,
                        Undefined, NotAnArray)
       IN Handle(r, getCartHandler(carts, r))

Add ==
  \E c \in CartIds, b \in AddBodies, f \in {"none"} \cup Faults :
    /\ c # "A" => b \in CoreAddBodies /\ f = "none"
    /\ f # "none" => b \in CoreAddBodies
    /\ LET r == Request("add", c, f, b.productId, b.name, b.price, b.quantity,
                        b.image, NotAnArray)
       IN Handle(r, addHandler(carts, r, now))

Update ==
  \E c \in CartIds, b \in UpdateBodies, f \in {"none"} \cup Faults :
    /\ c # "A" => b \in CoreUpdateBodies /\ f = "none"
    /\ f # "none" => b \in CoreUpdateBodies
    /\ LET r == Request("update", c, f, b.productId, Undefined, Undefined,
                        b.quantity, Undefined, NotAnArray)
       IN Handle(r, updateHandler(carts, r, now))

Remove ==
  \E c \in CartIds, id \in RemoveIds, f \in {"none"} \cup Faults :
    /\ c # "A" => id \in CoreRemoveIds /\ f = "none"
    /\ f # "none" => id \in CoreRemoveIds
    /\ LET r == Request("remove", c, f, id, Undefined, Undefined, Undefined,
                        Undefined, NotAnArray)
       IN Handle(r, removeHandler(carts, r, now))

Clear ==
  \E c \in CartIds, f \in {"none", "save"} :
    /\ c # "A" => f = "none"
    /\ LET r == Request("clear", c, f, Undefined, Undefined, Undefined, Undefined,
                        Undefined, NotAnArray)
       IN Handle(r, clearHandler(carts, r, now))

Sync ==
  \E c \in CartIds, l \in SyncLists, f \in {"none"} \cup Faults :
    /\ c # "A" => l \in CoreSyncLists /\ f = "none"
    /\ f # "none" => l \in CoreSyncLists
    /\ LET r == Request("sync", c, f, Undefined, Undefined, Undefined, Undefined,
                        Undefined, l)
       IN Handle(r, syncHandler(carts, r, now))

AdminCleanup ==
  \E d \in CleanupDays, f \in {"none", "save"} :
    /\ f # "none" => d = Undefined
    /\ LET r == [Request("adminCleanup", "A", f, Undefined, Undefined, Undefined,
                         Undefined, Undefined, NotAnArray) EXCEPT !.days = d]
       IN Handle(r, adminCleanupHandler(carts, r, now))

Stats ==
  \E f \in {"none", "get"} :
    LET r == Request("stats", "A", f, Undefined, Undefined, Undefined, Undefined,
                     Undefined, NotAnArray)
    IN Handle(r, statsHandler(carts, r))

\* a cleanup run of the server itself, f the call that throws in it
CleanupRun(op, f) ==
  /\ req' = Request(op, "A", f, Undefined, Undefined, Undefined, Undefined,
                    Undefined, NotAnArray)
  /\ resp' = NoResponse
  /\ carts' = cleanupCaught(carts, f, now).store
  /\ pc' = cleanupCaught(carts, f, now).pc
  /\ prev' = carts
  /\ UNCHANGED <<now, nreq, zeroed, inflight, args, result, local, calls, removed>>

\* the cleanup on startup, then app.listen
Startup ==
  \E f \in {"none", "save"} :
    /\ pc = "startup"
    /\ CleanupRun("startup", f)

\* the setInterval callback
CleanupInterval ==
  \E f \in {"none", "save"} :
    /\ pc = "listening"
    /\ CleanupRun("cleanup", f)

\* time passes
Tick ==
  /\ pc = "listening"
  /\ now + TickDays * DayMs <= MaxDay * DayMs
  /\ now' = now + TickDays * DayMs
  /\ req' = Request("tick", "A", "none", Undefined, Undefined, Undefined,
                    Undefined, Undefined, NotAnArray)
  /\ resp' = NoResponse
  /\ prev' = carts
  /\ UNCHANGED <<carts, nreq, zeroed, pc, inflight, args, result, local, calls, removed>>

Next ==
  \/ Startup
  \/ GetCart
  \/ Add
  \/ Update
  \/ Remove
  \/ Clear
  \/ Sync
  \/ AdminCleanup
  \/ Stats
  \/ CleanupInterval
  \/ Tick

Spec == Init /\ [][Next]_vars

(***************************************************************************)
(* The handlers with their two store calls as separate steps: getCart,     *)
(* then saveCart. Express queues the requests it receives and the event    *)
(* loop runs one handler callback at a time.                               *)
(***************************************************************************)
\* the handler of the route of r
handle(store, r, time) ==
  CASE r.op = "add" -> addHandler(store, r, time)
    [] r.op = "update" -> updateHandler(store, r, time)
    [] r.op = "remove" -> removeHandler(store, r, time)
    [] r.op = "clear" -> clearHandler(store, r, time)
    [] r.op = "sync" -> syncHandler(store, r, time)
    [] r.op = "stats" -> statsHandler(store, r)
    [] OTHER -> getCartHandler(store, r)

\* a handler that awaits between getCart and saveCart: the event loop may
\* start another callback meanwhile
mayStartAnytime(entries) == TRUE

\* the handlers are synchronous functions and the calls of better-sqlite3
\* return their result: the event loop starts a callback only when none is
\* running
mayStart(entries) == \A i \in 1..Len(entries) : entries[i].state # "running"

\* a request received; overlapped when another one is not done yet
Entry(r, overlapped) ==
  [r |-> r, state |-> "queued", snap |-> NoRow, overlapped |-> overlapped]

\* the requests sent while others are in flight
InFlightRequests ==
  { Request("add", c, "none", b.productId, b.name, b.price, b.quantity, b.image,
            NotAnArray) : c \in CartIds, b \in CoreAddBodies }
  \cup { Request("sync", "A", "none", Undefined, Undefined, Undefined, Undefined,
                 Undefined, l) : l \in CoreSyncLists }

\* what the handler of entry e answers and saves, from the cart it has read
finished(store, e, time) ==
  handle([store EXCEPT ![e.r.cartId] = e.snap], e.r, time)

\* the store after the saveCart of a handler that answers outcome
written(store, r, outcome, time) ==
  IF outcome.resp.status = 200 /\ r.op # "get"
    THEN saveCart(store, r.cartId, outcome.store[r.cartId].items, time)
    ELSE store

InitInFlight ==
  /\ carts \in StoredCarts
  /\ now = 2 * DayMs
  /\ req = NoRequest
  /\ resp = NoResponse
  /\ nreq = 0
  /\ prev = carts
  /\ zeroed = {}
  /\ pc = "listening"
  /\ inflight = <<>>
  /\ NoProbe
  /\ NoClient

Receive ==
  \E r \in InFlightRequests :
    /\ nreq < MaxInFlight
    /\ nreq' = nreq + 1
    /\ inflight' = Append(inflight,
                          Entry(r, \E i \in 1..Len(inflight) :
                                     inflight[i].state # "done"))
    /\ UNCHANGED <<carts, now, req, resp, prev, zeroed, pc, args, result, local, calls, removed>>

\* the callback of a queued request starts and calls getCart
Begin ==
  \E i \in 1..Len(inflight) :
    /\ inflight[i].state = "queued"
    /\ mayStart(inflight)
    /\ inflight' = [inflight EXCEPT ![i].state = "running",
                                    ![i].snap = getCart(carts, inflight[i].r.cartId)]
    /\ UNCHANGED <<carts, now, req, resp, nreq, prev, zeroed, pc, args, result, local, calls, removed>>

\* the running callback calls saveCart and answers
Finish ==
  \E i \in 1..Len(inflight) :
    /\ inflight[i].state = "running"
    /\ req' = inflight[i].r
    /\ resp' = finished(carts, inflight[i], now).resp
    /\ carts' = written(carts, inflight[i].r, finished(carts, inflight[i], now), now)
    /\ prev' = carts
    /\ inflight' = [inflight EXCEPT ![i].state = "done"]
    /\ UNCHANGED <<now, nreq, zeroed, pc, args, result, local, calls, removed>>

NextInFlight ==
  \/ Receive
  \/ Begin
  \/ Finish

SpecInFlight == InitInFlight /\ [][NextInFlight]_vars

(***************************************************************************)
(* Types.                                                                  *)
(***************************************************************************)
TypeOK ==
  /\ DOMAIN carts = CartIds
  /\ nreq \in 0..MaxRequests
  /\ now \in 0..(MaxDay * DayMs)
  /\ DOMAIN prev = CartIds
  /\ \A c \in CartIds : carts[c].exists \in BOOLEAN
  /\ pc \in {"startup", "listening", "crashed"}

(***************************************************************************)
(* Properties.                                                             *)
(***************************************************************************)
ItemsOf(c) == carts[c].items

Distinct(items) ==
  \A i, j \in 1..Len(items) : items[i].productId = items[j].productId => i = j

\* the request just handled succeeded
Succeeded(op) == req.op = op /\ resp.status = 200

\* C1: in every reachable state each stored cart's itemCount equals the
\* number of line items of its stored list, and no two line items of a cart
\* share a productId.
C1_ItemCountAndDistinct ==
  \A c \in CartIds :
    carts[c].exists =>
      /\ carts[c].itemCount = Len(carts[c].items)
      /\ Distinct(carts[c].items)

\* a cart of two items whose row was updated by a sync that merged into it
C1_Witness ==
  /\ Succeeded("sync")
  /\ Len(ItemsOf(req.cartId)) = 2
  /\ carts[req.cartId].itemCount = 2
  /\ carts[req.cartId].createdAt < carts[req.cartId].lastUpdated

\* C2: in every reachable state every line item of every persisted cart has
\* an integer quantity between 1 and 999.
C2_QuantityInRange ==
  \A c \in CartIds : \A i \in 1..Len(carts[c].items) :
    LET q == carts[c].items[i].quantity IN
      /\ q % Scale = 0
      /\ q >= 1 * Scale
      /\ q <= 999 * Scale

\* an add onto an item of quantity 999 was refused and the item kept 999
C2_Witness ==
  /\ req.op = "add"
  /\ resp.status = 400
  /\ resp.error = "Quantity cannot exceed 999"
  /\ \E i \in 1..Len(ItemsOf(req.cartId)) :
       ItemsOf(req.cartId)[i].quantity = 999 * Scale

\* the validated client list of a sync request
ClientItems(r) == validateCartItems(r.items, getValidProductIds).sanitized

\* C3: a successful sync leaves every item of the server cart in the cart,
\* with quantity max(s, c) when the validated client list holds the same
\* productId with quantity c, and with its quantity s otherwise.
C3_SyncKeepsMax ==
  Succeeded("sync") =>
    LET S == prev[req.cartId].items
        T == carts[req.cartId].items
        V == ClientItems(req)
    IN \A i \in 1..Len(S) :
         \E j \in 1..Len(T) :
           /\ T[j].productId = S[i].productId
           /\ T[j].quantity >= S[i].quantity
           /\ \A k \in 1..Len(V) :
                V[k].productId = S[i].productId =>
                  /\ T[j].quantity >= V[k].quantity
                  /\ T[j].quantity \in {S[i].quantity, V[k].quantity}
           /\ (\A k \in 1..Len(V) : V[k].productId # S[i].productId) =>
                T[j].quantity = S[i].quantity

\* a sync whose client quantity for a product was below the stored one: the
\* stored quantity is still above the client's
C3_Witness ==
  /\ Succeeded("sync")
  /\ prev[req.cartId].exists
  /\ \E k \in 1..Len(ClientItems(req)) : \E j \in 1..Len(ItemsOf(req.cartId)) :
       /\ ItemsOf(req.cartId)[j].productId = ClientItems(req)[k].productId
       /\ ItemsOf(req.cartId)[j].quantity > ClientItems(req)[k].quantity

\* the stored items of the cart of the last request, before and after it
ItemsBefore == prev[req.cartId].items
ItemsAfter == carts[req.cartId].items

\* the last request left every other cart as it was
OthersUnchanged == \A c \in CartIds \ {req.cartId} : carts[c] = prev[c]

\* the product id the last request names, as the validators trim it
SentId == Trim(req.productId.s)

\* productId is a string that names a product of the catalog
InCatalog(productId) ==
  TypeOf(productId) = "string" /\ Trim(productId.s) \in DOMAIN products

\* the quantity of an add request: 1 when the body has none
InputQuantity(r) == IF r.quantity = Undefined THEN Num(1) ELSE r.quantity

\* an add request of a catalog product whose name, price and quantity are
\* valid, handled without a storage failure
ValidAdd ==
  /\ req.op = "add"
  /\ req.fault = "none"
  /\ InCatalog(req.productId)
  /\ validateProductName(req.name).valid
  /\ validatePrice(req.price).valid
  /\ validateQuantity(InputQuantity(req)).valid

\* C4: sync is idempotent: after a successful sync of an item list, a
\* second sync of the same list, issued at once or a day later, succeeds and
\* leaves the stored item list (ids, quantities, names, prices, images and
\* order) exactly as the first sync left it, and touches no other cart.
C4_SyncIdempotent ==
  Succeeded("sync") =>
    \A t \in {now, now + DayMs} :
      /\ syncHandler(carts, req, t).resp.status = 200
      /\ syncHandler(carts, req, t).resp.items = ItemsAfter
      /\ syncHandler(carts, req, t).store[req.cartId].items = ItemsAfter
      /\ \A c \in CartIds \ {req.cartId} :
           syncHandler(carts, req, t).store[c] = carts[c]

\* a sync that changed a stored cart of two items: one quantity was raised
\* to the client's
C4_Witness ==
  /\ Succeeded("sync")
  /\ prev[req.cartId].exists
  /\ Len(ItemsBefore) = 2
  /\ ItemsAfter # ItemsBefore
  /\ Len(ClientItems(req)) > 0

\* an item list that validateCartItems has to refuse: not a sequence, more
\* than 100 elements, an element with an invalid field or an unknown
\* product, or two elements with the same product id
RefusedList(l) ==
  \/ ~l.isArray
  \/ Len(l.elems) > 100
  \/ \E i \in 1..Len(l.elems) : l.elems[i] \in BadRawItems
  \/ \E i, j \in 1..Len(l.elems) :
       /\ i # j
       /\ Trim(l.elems[i].productId.s) = Trim(l.elems[j].productId.s)

\* C5: sync is all-or-nothing: a sync whose item list is refused is
\* answered 400, and after any sync answered 400 every stored cart (items,
\* itemCount, lastUpdated, existence of the row) is what it was before.
C5_SyncAllOrNothing ==
  (req.op = "sync" /\ (RefusedList(req.items) \/ resp.status = 400)) =>
    /\ resp.status = 400
    /\ carts = prev

\* a sync refused for its second element, after a valid first one, on a
\* cart whose row is older than the request: items and lastUpdated kept
C5_Witness ==
  /\ req.op = "sync"
  /\ resp.status = 400
  /\ resp.index = 1
  /\ carts[req.cartId].exists
  /\ Len(ItemsAfter) = 2
  /\ carts[req.cartId].lastUpdated < now

\* C6: a valid add of a product already in the cart with quantity s and
\* input quantity q sets that item's quantity to s + q and changes nothing
\* else when s + q <= 999; when s + q > 999 it is answered 400 and the
\* store is unchanged.
C6_AddToExisting ==
  (ValidAdd /\ SentId \in ProductIdsOf(ItemsBefore)) =>
    LET i == FindIndex(ItemsBefore, SentId)
        total == ItemsBefore[i].quantity + ToNumber(InputQuantity(req)).n
    IN IF total <= 999 * Scale
         THEN /\ resp.status = 200
              /\ ItemsAfter = [ItemsBefore EXCEPT ![i].quantity = total]
              /\ resp.items = ItemsAfter
              /\ OthersUnchanged
         ELSE /\ resp.status = 400
              /\ carts = prev

\* an add of 3 onto the second item of a cart raised 3 to 6 and kept the
\* first item
C6_Witness ==
  /\ Succeeded("add")
  /\ Len(ItemsBefore) = 2
  /\ SentId = ItemsBefore[2].productId
  /\ ItemsBefore[2].quantity = 3 * Scale
  /\ ItemsAfter[2].quantity = 6 * Scale
  /\ ItemsAfter[1] = ItemsBefore[1]

\* C7: a valid add of a catalog product that is not in the cart, with or
\* without a cart row, appends exactly one item {productId, name, price,
\* quantity, image} made of the trimmed id and name, the price rounded to
\* cents and the input quantity, 1 when omitted, with image null when
\* omitted, and leaves the items stored before and the other carts as
\* they were.
C7_AddAppendsNewItem ==
  (ValidAdd /\ SentId \notin ProductIdsOf(ItemsBefore)) =>
    /\ resp.status = 200
    /\ Len(ItemsAfter) = Len(ItemsBefore) + 1
    /\ SubSeq(ItemsAfter, 1, Len(ItemsBefore)) = ItemsBefore
    /\ resp.items = ItemsAfter
    /\ OthersUnchanged
    /\ LET item == ItemsAfter[Len(ItemsAfter)] IN
         /\ DOMAIN item = {"productId", "name", "price", "quantity", "image"}
         /\ item.productId = SentId
         /\ item.name = Trim(req.name.s)
         /\ item.price % (Scale \div 100) = 0
         /\ 2 * (item.price - ToNumber(req.price).n) \in
              (-(Scale \div 100))..(Scale \div 100)
         /\ item.quantity = ToNumber(InputQuantity(req)).n
         /\ req.quantity = Undefined => item.quantity = 1 * Scale
         /\ req.image = Undefined => item.image = Null

\* the add of the Laptop, without quantity and image, for a cart that has
\* no row: the cart is the one-element list
C7_Witness ==
  /\ Succeeded("add")
  /\ ~prev[req.cartId].exists
  /\ req.quantity = Undefined
  /\ req.image = Undefined
  /\ ItemsAfter = << [productId |-> <<"1">>, name |-> Laptop, price |-> 999990,
                      quantity |-> 1 * Scale, image |-> Null] >>

\* C8: an add whose productId names no product of the catalog is answered
\* 400 and leaves the store unchanged (no row created, no cart modified);
\* the error is "Invalid product ID" when the body has a name and a price
\* and the productId is a string that is not blank.
C8_AddUnknownProduct ==
  (req.op = "add" /\ ~InCatalog(req.productId)) =>
    /\ resp.status = 400
    /\ carts = prev
    /\ (/\ Truthy(req.name)
        /\ req.price # Undefined
        /\ TypeOf(req.productId) = "string"
        /\ Len(SentId) > 0) => resp.error = "Invalid product ID"

\* the add of product "99", with name and price, for a cart that has no
\* row: refused, and the cart still has no row
C8_Witness ==
  /\ req.op = "add"
  /\ req.productId = Str(<<"9", "9">>)
  /\ Truthy(req.name)
  /\ resp.status = 400
  /\ resp.error = "Invalid product ID"
  /\ ~carts[req.cartId].exists

\* C9: an update with quantity 0 of a product in the cart removes exactly
\* that item, the others and their order unchanged; and as long as no add
\* or sync sent that product again, the stored cart does not hold it and a
\* GET /api/cart does not list it.
C9_UpdateZeroRemoves ==
  /\ (/\ req.op = "update"
      /\ req.fault = "none"
      /\ req.quantity = Num(0)
      /\ InCatalog(req.productId)
      /\ SentId \in ProductIdsOf(ItemsBefore)) =>
       /\ resp.status = 200
       /\ ItemsAfter = SelectSeq(ItemsBefore, LAMBDA item : item.productId # SentId)
       /\ Len(ItemsAfter) = Len(ItemsBefore) - 1
       /\ resp.items = ItemsAfter
       /\ OthersUnchanged
  /\ \A z \in zeroed :
       /\ z[2] \notin ProductIdsOf(carts[z[1]].items)
       /\ (Succeeded("get") /\ req.cartId = z[1]) =>
            z[2] \notin ProductIdsOf(resp.items)

\* a GET after an update with quantity 0 removed the first item of a cart
\* of two: it lists the other item only
C9_Witness ==
  /\ Succeeded("get")
  /\ <<req.cartId, <<"1">>>> \in zeroed
  /\ Len(resp.items) = 1
  /\ resp.items[1].productId = <<"2">>

\* an update request of a catalog product with a quantity, handled without
\* a storage failure
ValidUpdate ==
  /\ req.op = "update"
  /\ req.fault = "none"
  /\ InCatalog(req.productId)
  /\ req.quantity # Undefined

\* the quantity of the last request is a number below 0
Negative == NumLess(ToNumber(req.quantity), Num(0))

\* C10: an update that is not answered 200 leaves the store unchanged; a
\* valid update with a quantity that is not negative is answered 404 when
\* the cart has no row (none is created) and 404 when the cart does not
\* hold the product; a valid update with a negative quantity is answered
\* 400.
C10_UpdateNotFoundOrNegative ==
  /\ (req.op = "update" /\ resp.status # 200) => carts = prev
  /\ (ValidUpdate /\ ~Negative /\ ~prev[req.cartId].exists) =>
       /\ resp.status = 404
       /\ ~carts[req.cartId].exists
  /\ (ValidUpdate /\ ~Negative /\ prev[req.cartId].exists
        /\ SentId \notin ProductIdsOf(ItemsBefore)) =>
       resp.status = 404
  /\ (ValidUpdate /\ Negative) => resp.status = 400

\* an update for a cart that has no row was answered 404 and the cart
\* still has no row
C10_Witness ==
  /\ req.op = "update"
  /\ resp.status = 404
  /\ resp.error = "Cart not found"
  /\ ~carts[req.cartId].exists

\* a remove request of a catalog product, handled without a storage failure
ValidRemove ==
  /\ req.op = "remove"
  /\ req.fault = "none"
  /\ InCatalog(req.productId)

\* the items stored before the last request, without the product it names
ItemsBeforeWithoutSent ==
  SelectSeq(ItemsBefore, LAMBDA item : item.productId # SentId)

\* C11 as stated: a remove of a valid productId succeeds and stores the
\* item list with the matching item filtered out, whatever the cart.
C11_RemoveFailsOnlyOnInvalidId ==
  ValidRemove =>
    /\ resp.status = 200
    /\ ItemsAfter = ItemsBeforeWithoutSent

\* C11 (amended): a remove of a valid productId for a cart that has a row
\* succeeds and stores the item list with the matching item filtered out,
\* which is the same list when the cart does not hold the product; for a
\* cart that has no row it is answered 404 and none is created; a remove of
\* an invalid productId is answered 400 and the store is unchanged.
C11_RemoveFilters ==
  /\ (ValidRemove /\ prev[req.cartId].exists) =>
       /\ resp.status = 200
       /\ ItemsAfter = ItemsBeforeWithoutSent
       /\ resp.items = ItemsAfter
       /\ OthersUnchanged
       /\ SentId \notin ProductIdsOf(ItemsBefore) => ItemsAfter = ItemsBefore
  /\ (ValidRemove /\ ~prev[req.cartId].exists) =>
       /\ resp.status = 404
       /\ carts = prev
  /\ (req.op = "remove" /\ ~InCatalog(req.productId)) =>
       /\ resp.status = 400
       /\ carts = prev

\* a remove of a product the cart does not hold succeeded and the cart kept
\* its item
C11_Witness ==
  /\ Succeeded("remove")
  /\ Len(ItemsBefore) = 1
  /\ SentId \notin ProductIdsOf(ItemsBefore)
  /\ ItemsAfter = ItemsBefore

\* the outcome of the last request issued once more at time t, on the store
\* as that request left it
Reissued(t) ==
  CASE req.op = "add" -> addHandler(carts, req, t)
    [] req.op = "update" -> updateHandler(carts, req, t)
    [] req.op = "remove" -> removeHandler(carts, req, t)
    [] req.op = "clear" -> clearHandler(carts, req, t)
    [] req.op = "sync" -> syncHandler(carts, req, t)
    [] OTHER -> Outcome(resp, carts)

\* the times of a retry: at once, or a day later
RetryTimes == {now, now + DayMs}

\* C12 as stated: every cart operation (add, update, remove, clear, sync),
\* issued a second time with the same input, leaves the stored item list
\* equal to what it was after the first issue.
C12_EveryOperationIdempotent ==
  (req.op \in {"add", "update", "remove", "clear", "sync"} /\ req.fault = "none") =>
    \A t \in RetryTimes : Reissued(t).store[req.cartId].items = ItemsAfter

\* C12 (amended): update, remove, clear and sync, issued a second time with
\* the same input, leave the stored item list equal to what it was after the
\* first issue; add does not: a second issue of a successful add either adds
\* the input quantity to the item once more, or is answered 400 because the
\* sum exceeds 999 and leaves the store as it was.
C12_IdempotentExceptAdd ==
  /\ (req.op \in {"update", "remove", "clear", "sync"} /\ req.fault = "none") =>
       \A t \in RetryTimes :
         /\ Reissued(t).store[req.cartId].items = ItemsAfter
         /\ \A c \in CartIds \ {req.cartId} : Reissued(t).store[c] = carts[c]
  /\ (Succeeded("add") /\ req.fault = "none") =>
       \A t \in RetryTimes :
         LET i == FindIndex(ItemsAfter, SentId)
             total == ItemsAfter[i].quantity + ToNumber(InputQuantity(req)).n
         IN IF total <= 999 * Scale
              THEN /\ Reissued(t).resp.status = 200
                   /\ Reissued(t).store[req.cartId].items =
                        [ItemsAfter EXCEPT ![i].quantity = total]
                   /\ Reissued(t).store[req.cartId].items # ItemsAfter
              ELSE /\ Reissued(t).resp.status = 400
                   /\ Reissued(t).store = carts

\* an update that set the quantity of an item to 3, which a second issue
\* would set to 3 again
C12_Witness ==
  /\ Succeeded("update")
  /\ req.quantity = Num(3)
  /\ ItemsAfter # ItemsBefore
  /\ \E i \in 1..Len(ItemsAfter) : ItemsAfter[i].quantity = 3 * Scale

\* C13: a cart row comes into existence only through a successful add: a
\* cart that had no row before the last event and has one after it was the
\* cart of a successful add; update, remove, clear and sync create none.
C13_RowOnlyByAdd ==
  \A c \in CartIds :
    (~prev[c].exists /\ carts[c].exists) => (Succeeded("add") /\ req.cartId = c)

\* the last request was answered 200 by an operation that saves the cart
Saved == /\ req.op \in {"add", "update", "remove", "clear", "sync"}
         /\ resp.status = 200

\* C14: a row that exists before and after an event keeps its createdAt
\* and its lastUpdated does not decrease; a request that saves the cart
\* sets lastUpdated to the current time, and createdAt too when the row is
\* new; hence createdAt <= lastUpdated <= now for every row.
C14_Timestamps ==
  \A c \in CartIds :
    /\ carts[c].exists =>
         /\ carts[c].createdAt <= carts[c].lastUpdated
         /\ carts[c].lastUpdated <= now
    /\ (prev[c].exists /\ carts[c].exists) =>
         /\ carts[c].createdAt = prev[c].createdAt
         /\ carts[c].lastUpdated >= prev[c].lastUpdated
    /\ (Saved /\ req.cartId = c) =>
         /\ carts[c].exists
         /\ carts[c].lastUpdated = now
         /\ ~prev[c].exists => carts[c].createdAt = now

\* an update saved a row days after the add that created it: lastUpdated
\* moved to the current time and createdAt stayed
C14_Witness ==
  /\ Succeeded("update")
  /\ now > 0
  /\ carts[req.cartId].createdAt = 0
  /\ prev[req.cartId].lastUpdated = 0
  /\ carts[req.cartId].lastUpdated = now

\* C15: a clear of a cart that has a row, handled without a storage
\* failure, succeeds, keeps the row and its createdAt and stores the empty
\* item list with itemCount 0: getCart returns a cart whose items are [],
\* and GET /api/cart answers items [] with itemCount 0.
C15_ClearKeepsRow ==
  (req.op = "clear" /\ req.fault = "none" /\ prev[req.cartId].exists) =>
    /\ resp.status = 200
    /\ resp.items = <<>>
    /\ getCart(carts, req.cartId).exists
    /\ getCart(carts, req.cartId).items = <<>>
    /\ getCart(carts, req.cartId).itemCount = 0
    /\ getCart(carts, req.cartId).createdAt = prev[req.cartId].createdAt
    /\ getCartFound(getCart(carts, req.cartId), carts).resp.hasItemCount
    /\ getCartFound(getCart(carts, req.cartId), carts).resp.itemCount = 0
    /\ getCartFound(getCart(carts, req.cartId), carts).resp.items = <<>>
    /\ OthersUnchanged

\* a clear of a cart of two items, days after the cart was created
C15_Witness ==
  /\ Succeeded("clear")
  /\ Len(ItemsBefore) = 2
  /\ carts[req.cartId].exists
  /\ ItemsAfter = <<>>
  /\ carts[req.cartId].createdAt < now

\* row is a cart row last updated more than d days before now
Expired(row, d) == row.exists /\ row.lastUpdated < now - d * DayMs

\* the last event was a cleanup run that did not fail: the callback of the
\* timer, or an admin cleanup whose body carries a day count that is not 0
CleanupRan ==
  /\ req.fault = "none"
  /\ \/ req.op = "cleanup"
     \/ req.op = "adminCleanup" /\ Truthy(req.days)

\* the retention of that run, in days
RanDays == IF req.op = "cleanup" THEN 7 ELSE ToNumber(req.days).n \div Scale

\* C16: a cleanup run with retention d days at time now deletes exactly the
\* rows whose lastUpdated is below now - d * 86400000 and leaves every
\* other row as it was; the admin request answers the number of deleted
\* rows; with d = 7 a row updated 8 days ago is deleted and one updated 6
\* days ago is kept.
C16_CleanupDeletesExpired ==
  CleanupRan =>
    /\ \A c \in CartIds :
         /\ Expired(prev[c], RanDays) => ~carts[c].exists
         /\ ~Expired(prev[c], RanDays) => carts[c] = prev[c]
    /\ req.op = "adminCleanup" =>
         resp.deletedCarts = Cardinality({c \in CartIds : Expired(prev[c], RanDays)})
    /\ RanDays = 7 =>
         \A c \in CartIds :
           /\ (prev[c].exists /\ prev[c].lastUpdated = now - 8 * DayMs) =>
                ~carts[c].exists
           /\ (prev[c].exists /\ prev[c].lastUpdated = now - 6 * DayMs) =>
                carts[c] = prev[c]

\* the timer's cleanup deleted the cart updated 8 days ago and kept the one
\* updated 6 days ago
C16_Witness ==
  /\ req.op = "cleanup"
  /\ req.fault = "none"
  /\ prev["A"].exists
  /\ prev["A"].lastUpdated = now - 8 * DayMs
  /\ ~carts["A"].exists
  /\ carts["B"].exists
  /\ carts["B"].lastUpdated = now - 6 * DayMs

\* C17: an admin cleanup deletes with the cutoff now - d * 86400000 for the
\* day count d of its body, 0 included, and with 7 days when the body has
\* none.
C17_ExplicitDaysOverride ==
  (/\ req.op = "adminCleanup"
   /\ req.fault = "none"
   /\ TypeOf(req.days) \in {"number", "undefined"}) =>
    LET d == IF req.days = Undefined THEN 7 ELSE req.days.n \div Scale
    IN \A c \in CartIds :
         /\ Expired(prev[c], d) => ~carts[c].exists
         /\ ~Expired(prev[c], d) => carts[c] = prev[c]

\* the last event was a cleanup run, on startup or of the timer, that failed
CleanupRunFailed == req.op \in {"startup", "cleanup"} /\ req.fault # "none"

\* C18: a failing cleanup run, on startup or of the timer, leaves the store
\* as it was and the process running: the process never crashes, and after
\* a failed run the server is listening, the timer's cleanup can run again
\* and a request can be handled.
C18_CleanupFailureIsCaught ==
  /\ pc # "crashed"
  /\ CleanupRunFailed =>
       /\ carts = prev
       /\ pc = "listening"
       /\ ENABLED CleanupInterval
       /\ nreq < MaxRequests => ENABLED GetCart

\* a run of the timer failed while a cart was expired: the cart is still
\* there and the server is listening
C18_Witness ==
  /\ req.op = "cleanup"
  /\ req.fault # "none"
  /\ pc = "listening"
  /\ carts["A"].exists
  /\ carts["A"].lastUpdated < now - 7 * DayMs

\* C19: read-modify-write sequences on one cart are serialized: the cart a
\* handler read is the cart its save replaces, so every request that
\* finishes leaves the store and answers as its handler does when run alone
\* on the store found at its save; a request that finished keeps what the
\* requests done before it on the same cart had stored: every product they
\* left in the cart is still there with a quantity that is not lower.
C19_NoLostUpdate ==
  (req.op \in {"add", "sync"}) =>
    /\ carts = handle(prev, req, now).store
    /\ resp = handle(prev, req, now).resp
    /\ resp.status = 200 =>
         \A i \in 1..Len(ItemsBefore) : \E j \in 1..Len(ItemsAfter) :
           /\ ItemsAfter[j].productId = ItemsBefore[i].productId
           /\ ItemsAfter[j].quantity >= ItemsBefore[i].quantity
    /\ \A i \in 1..Len(inflight) :
         (inflight[i].state = "running") =>
           inflight[i].snap = carts[inflight[i].r.cartId]

\* two adds of different products for the same cart without a row were in
\* flight together and both are done: the cart holds both products
C19_Witness ==
  /\ Len(inflight) = 2
  /\ inflight[1].state = "done"
  /\ inflight[2].state = "done"
  /\ inflight[2].overlapped
  /\ inflight[1].r.op = "add"
  /\ inflight[2].r.op = "add"
  /\ inflight[1].r.cartId = inflight[2].r.cartId
  /\ inflight[1].r.productId # inflight[2].r.productId
  /\ Len(carts[inflight[1].r.cartId].items) = 2
  /\ carts[inflight[1].r.cartId].createdAt = now

\* the handler of the last request called getCart, respectively saveCart:
\* had that call thrown, the request would have been answered 500
GetReached == handle(prev, [req EXCEPT !.fault = "get"], now).resp.status = 500
SaveReached == handle(prev, [req EXCEPT !.fault = "save"], now).resp.status = 500

\* the last request was rejected for a validation reason
Rejected ==
  /\ req.op \in {"add", "update", "remove", "sync"}
  /\ req.fault = "none"
  /\ resp.status = 400

\* C20 as stated: a request rejected for a validation reason is rejected
\* before its handler calls getCart or saveCart, and the store is left as it
\* was.
C20_RejectedBeforeStoreAccess ==
  Rejected =>
    /\ ~GetReached
    /\ ~SaveReached
    /\ carts = prev

\* C20 (amended): a request rejected for a validation reason is rejected
\* before its handler calls saveCart and the store is left as it was; it is
\* rejected before getCart too, except by the two checks made after the
\* lookup of an item the cart holds: a valid add whose summed quantity
\* exceeds 999, and an update whose quantity fails validateQuantity.
C20_RejectedBeforeSave ==
  Rejected =>
    /\ ~SaveReached
    /\ carts = prev
    /\ GetReached =>
         /\ req.op \in {"add", "update"}
         /\ InCatalog(req.productId)
         /\ SentId \in ProductIdsOf(ItemsBefore)
         /\ req.op = "add" => resp.error = "Quantity cannot exceed 999"
         /\ req.op = "update" => resp.error = validateQuantity(req.quantity).error
    /\ ValidAdd => GetReached
    /\ (ValidUpdate /\ ~Negative /\ SentId \in ProductIdsOf(ItemsBefore)) =>
         GetReached

\* an update with quantity 1000 of an item of the cart was rejected after
\* the cart was read, and nothing was stored
C20_Witness ==
  /\ Rejected
  /\ req.op = "update"
  /\ req.quantity = Num(MaxQuantity + 1)
  /\ GetReached
  /\ ~SaveReached
  /\ carts = prev

\* the routes that write a cart
Mutating == {"add", "update", "remove", "clear", "sync"}

\* C21: after an add, update, remove, clear or sync, either the response is
\* a success that carries the item list the cart's row now holds, or it is
\* an error and the whole store is what it was before the request; a
\* request whose get or save raised a storage error is one of the latter.
C21_NoPartialSuccess ==
  req.op \in Mutating =>
    /\ resp.status = 200 =>
         /\ carts[req.cartId].exists
         /\ resp.hasItems
         /\ resp.items = ItemsAfter
         /\ carts[req.cartId].itemCount = Len(resp.items)
    /\ resp.status # 200 =>
         /\ carts = prev
         /\ ~resp.hasItems

\* a sync that would have merged a new item into a stored cart met a failing
\* save: it answered 500 and the cart kept its list
C21_Witness ==
  /\ req.op = "sync"
  /\ req.fault = "save"
  /\ resp.status = 500
  /\ prev[req.cartId].exists
  /\ carts = prev
  /\ handle(prev, [req EXCEPT !.fault = "none"], now).store # prev
  /\ Len(handle(prev, [req EXCEPT !.fault = "none"], now).resp.items) > Len(ItemsBefore)

\* C22: a storage fault in a store operation is reported as an error: a get
\* whose read fails is never answered as a cart without items, a stats
\* request whose read fails is never answered with a well-formed result
\* (least of all zero carts and zero items), and a failing save or a
\* failing delete of expired carts is answered 500.
C22_FaultsAreDistinct ==
  /\ (req.op = "get" /\ req.fault = "get") =>
       resp.status = 500 /\ ~resp.hasItems
  /\ (req.op = "stats" /\ req.fault = "get") =>
       /\ resp.status = 500
       /\ ~(resp.totalCarts = 0 /\ resp.totalItems = 0 /\ resp.error = "")
  /\ (req.op \in {"clear", "adminCleanup"} /\ req.fault = "save") =>
       resp.status = 500

(***************************************************************************)
(* The validators called directly.  SpecValidators draws the arguments of  *)
(* one call in its initial state and its actions make the call.            *)
(***************************************************************************)
Args(fn, quantity, items, validProductIds) ==
  [fn |-> fn, quantity |-> quantity, items |-> items,
   validProductIds |-> validProductIds, called |-> FALSE]

\* quantities: absent, whole, fractional, not finite, texts and booleans
ProbeQuantities ==
  { Undefined, Null, NaN, Infinity, True, False, Object }
  \cup { Num(k) : k \in (-2)..MaxProbeQuantity }
  \cup { Num(k) : k \in 998..1001 }
  \cup { Milli(m) : m \in {-500, 1, 500, 1500, 998500, 999001, 999500} }
  \cup { Str(<<"5">>), Str(<<" ", "3">>), Str(<<"1", ".", "5">>), Str(<<>>),
         Str(<<"a">>), Str(<<"0">>), Str(<<"-", "1">>),
         Str(<<"9", "9", "9">>), Str(<<"1", "0", "0", "0">>) }

\* elements of the item lists: two spellings of product 1, two more
\* products, and elements that validateCartItem rejects
ProbeItems ==
  { g1, g1b, g2,
    RawItem(Str(<<"3", " ">>), Str(<<"H">>), Num(2), Str(<<"2">>), Null),
    NotAnObject,
    RawItem(Str(<<"1">>), Str(Laptop), Num(-1), Num(1), Undefined) }

ProbeLists ==
  { NotAnArray, RawList(Rep(g1, MaxCartItems)), RawList(Rep(g1, MaxCartItems + 1)) }
  \cup { RawList(l) : l \in UNION { [1..k -> ProbeItems] : k \in 0..MaxProbeLen } }

\* sets of valid product ids: the catalog's, and one without product 2
ProbeValidIds == { getValidProductIds, getValidProductIds \ {<<"2">>} }

ValidatorArgs ==
  { Args("validateQuantity", q, NotAnArray, {}) : q \in ProbeQuantities }
  \cup { Args("validateCartItems", Undefined, l, v) : l \in ProbeLists, v \in ProbeValidIds }

InitValidators ==
  /\ carts = EmptyCarts
  /\ now = 0
  /\ req = NoRequest
  /\ resp = NoResponse
  /\ nreq = 0
  /\ prev = carts
  /\ zeroed = {}
  /\ pc = "listening"
  /\ inflight = <<>>
  /\ NoClient
  /\ args \in ValidatorArgs
  /\ result = <<>>

\* the call returns
Return(value) ==
  /\ ~args.called
  /\ args' = [args EXCEPT !.called = TRUE]
  /\ result' = value
  /\ UNCHANGED <<carts, now, req, resp, nreq, prev, zeroed, pc, inflight, local, calls, removed>>

CallValidateQuantity ==
  /\ args.fn = "validateQuantity"
  /\ Return(validateQuantity(args.quantity))

CallValidateCartItems ==
  /\ args.fn = "validateCartItems"
  /\ Return(validateCartItems(args.items, args.validProductIds))

NextValidators ==
  \/ CallValidateQuantity
  \/ CallValidateCartItems

SpecValidators == InitValidators /\ [][NextValidators]_vars

\* validateQuantity has returned
QuantityCalled == args.fn = "validateQuantity" /\ args.called

\* the number the argument of validateQuantity reads as
QuantityNumber == ToNumber(args.quantity)

\* C23: validateQuantity(q) with the default maximum succeeds exactly when
\* q is present and the number it reads as is an integer from 1 to 999, and
\* then it returns that integer; so it fails for an absent q and for a q
\* that is zero or less, more than 999, not an integer or not a number.
C23_ValidateQuantity ==
  QuantityCalled =>
    /\ result.valid <=>
         /\ args.quantity \notin {Undefined, Null}
         /\ QuantityNumber.t = "number"
         /\ QuantityNumber.n % Scale = 0
         /\ QuantityNumber.n >= 1 * Scale
         /\ QuantityNumber.n <= 999 * Scale
    /\ result.valid => result.sanitized = QuantityNumber.n
    /\ ~result.valid => result.error # ""

\* the largest quantity was accepted and returned as it is
C23_Witness ==
  /\ QuantityCalled
  /\ args.quantity = Num(999)
  /\ result.valid
  /\ result.sanitized = 999 * Scale

\* validateCartItems has returned
ItemsCalled == args.fn = "validateCartItems" /\ args.called

\* what validateCartItem makes of the element at position i (from 1)
ElemResult(i) == validateCartItem(args.items.elems[i], args.validProductIds)

\* the trimmed productId of the element at position i
ElemId(i) == Trim(args.items.elems[i].productId.s)

\* the element at position i fails validateCartItem, or has the trimmed
\* productId of an earlier element
BadElem(i) ==
  \/ ~ElemResult(i).valid
  \/ \E j \in 1..(i - 1) : ElemId(j) = ElemId(i)

\* the first such position, 0 when there is none
FirstBad ==
  IF \E i \in 1..Len(args.items.elems) : BadElem(i)
    THEN CHOOSE i \in 1..Len(args.items.elems) :
           BadElem(i) /\ \A j \in 1..(i - 1) : ~BadElem(j)
    ELSE 0

\* the result is the failure the element at position i calls for
FailsAt(i) ==
  /\ ~result.valid
  /\ ~ElemResult(i).valid =>
       /\ result.index = i - 1
       /\ result.error = ElemResult(i).error
  /\ ElemResult(i).valid =>
       /\ result.error = "Duplicate product ID"
       /\ result.id = ElemId(i)

\* the result is the list of the normalized elements, in input order
ReturnsNormalized ==
  /\ result.valid
  /\ Len(result.sanitized) = Len(args.items.elems)
  /\ \A i \in 1..Len(args.items.elems) :
       /\ result.sanitized[i] = ElemResult(i).sanitized
       /\ result.sanitized[i].productId = ElemId(i)
       /\ result.sanitized[i].productId \in args.validProductIds
  /\ \A i, j \in 1..Len(result.sanitized) :
       result.sanitized[i].productId = result.sanitized[j].productId => i = j

\* C24: validateCartItems(items, validIds) fails when items is not an array
\* or has more than 100 elements; otherwise it fails at the first position
\* whose element fails validateCartItem (the error carries that 0-based
\* index and the element's error) or repeats the trimmed productId of an
\* earlier element (duplicate error with that id); when there is no such
\* position it returns the normalized elements in input order, as many as
\* the input has, with pairwise distinct productIds that are all in
\* validIds.
C24_ValidateCartItems ==
  ItemsCalled =>
    IF ~args.items.isArray
      THEN ~result.valid /\ result.error = "Items must be an array"
    ELSE IF Len(args.items.elems) > 100
      THEN ~result.valid /\ result.error = "Cart cannot contain more than 100 items"
    ELSE IF FirstBad # 0 THEN FailsAt(FirstBad)
    ELSE ReturnsNormalized

\* a list of three elements whose third repeats, with spaces around it, the
\* productId of the first was refused as a duplicate
C24_Witness ==
  /\ ItemsCalled
  /\ args.items.isArray
  /\ Len(args.items.elems) = 3
  /\ FirstBad = 3
  /\ ElemResult(3).valid
  /\ args.items.elems[3].productId # args.items.elems[1].productId
  /\ result.error = "Duplicate product ID"

\* the raw item an add request carries, sent as a one-element list to sync
AsSyncRequest(r) ==
  Request("sync", r.cartId, "none", Undefined, Undefined, Undefined, Undefined,
          Undefined,
          RawList(<<RawItem(r.productId, r.name, r.price, r.quantity, r.image)>>))

\* the outcomes of add and of sync for the raw item of the last add request,
\* each on a store without carts
AddedAlone == addHandler(EmptyCarts, [req EXCEPT !.fault = "none"], now)
SyncedAlone == syncHandler(EmptyCarts, AsSyncRequest(req), now)

\* C25: for the raw item of any add request, add and a sync of the
\* one-element list, each on an empty cart, both reject it or both accept
\* it, and when they accept it they store the same line item.
C25_AddAndSyncAgree ==
  req.op = "add" =>
    /\ (AddedAlone.resp.status = 200) <=> (SyncedAlone.resp.status = 200)
    /\ AddedAlone.resp.status = 200 =>
         AddedAlone.store[req.cartId].items = SyncedAlone.store[req.cartId].items

\* C26: an add, update, remove, clear or sync request for one cart
\* identifier leaves the row of every other identifier as it was: its
\* existence, items, itemCount, lastUpdated and createdAt.
C26_CartsIsolated ==
  req.op \in Mutating =>
    \A c \in CartIds \ {req.cartId} :
      /\ carts[c].exists = prev[c].exists
      /\ carts[c].items = prev[c].items
      /\ carts[c].itemCount = prev[c].itemCount
      /\ carts[c].lastUpdated = prev[c].lastUpdated
      /\ carts[c].createdAt = prev[c].createdAt

\* a request changed the list of its own cart while another cart, holding
\* a different list, kept its row
C26_Witness ==
  /\ req.op \in Mutating
  /\ resp.status = 200
  /\ ItemsAfter # ItemsBefore
  /\ \E c \in CartIds \ {req.cartId} :
       /\ prev[c].exists
       /\ prev[c].items # <<>>
       /\ carts[c] = prev[c]
       /\ carts[c].items # ItemsAfter
       /\ carts[c].lastUpdated # carts[req.cartId].lastUpdated

\* the productIds of a list of items, in its order
IdsInOrder(items) == [i \in 1..Len(items) |-> items[i].productId]

\* the validated client items of the last sync whose productId the server
\* cart did not hold, in the order of the submitted list
NewFromClient ==
  SelectSeq(ClientItems(req),
            LAMBDA item : item.productId \notin ProductIdsOf(ItemsBefore))

\* C27: the list a successful sync stores and returns holds the server
\* cart's items first, in their stored order, followed by the client items
\* whose productId the server cart did not hold, in the order of the
\* submitted list.
C27_SyncOrder ==
  Succeeded("sync") =>
    /\ resp.items = ItemsAfter
    /\ IdsInOrder(ItemsAfter) = IdsInOrder(ItemsBefore) \o IdsInOrder(NewFromClient)
    /\ SubSeq(ItemsAfter, Len(ItemsBefore) + 1, Len(ItemsAfter)) = NewFromClient

\* a sync whose list names a new product before one the cart holds: the
\* held item stays first and the new one follows it
C27_Witness ==
  /\ Succeeded("sync")
  /\ Len(ItemsBefore) = 1
  /\ Len(ClientItems(req)) = 2
  /\ ClientItems(req)[1].productId \notin ProductIdsOf(ItemsBefore)
  /\ ClientItems(req)[2].productId = ItemsBefore[1].productId
  /\ IdsInOrder(ItemsAfter) = <<ItemsBefore[1].productId, ClientItems(req)[1].productId>>

\* C28: in every reachable state the productId of every line item of every
\* persisted cart is the id of a product of the catalog.
C28_StoredIdsInCatalog ==
  \A c \in CartIds : \A i \in 1..Len(carts[c].items) :
    /\ carts[c].items[i].productId \in getValidProductIds
    /\ products[carts[c].items[i].productId].productId = carts[c].items[i].productId

\* a sync whose list spelled a product id with spaces around it succeeded:
\* the id as sent is no catalog id, the id stored is
C28_Witness ==
  /\ Succeeded("sync")
  /\ \E k \in 1..Len(req.items.elems) : \E i \in 1..Len(ItemsAfter) :
       /\ req.items.elems[k].productId.s \notin getValidProductIds
       /\ ItemsAfter[i].productId = Trim(req.items.elems[k].productId.s)
       /\ ItemsAfter[i].productId \in getValidProductIds

(***************************************************************************)
(* The cleanup schedule.  setInterval fires its callback every hour for as *)
(* long as the process runs, so a run of the timer that meets no storage   *)
(* fault is taken whenever it stays possible.                              *)
(***************************************************************************)
\* a run of the timer's callback in which the delete does not throw
CleanupTick ==
  /\ pc = "listening"
  /\ CleanupRun("cleanup", "none")

SpecSchedule == Init /\ [][Next]_vars /\ WF_vars(CleanupTick)

\* cart c has a row last saved longer ago than the retention window
Stale(c) == Expired(carts[c], 7)

\* a run on startup or of the timer leaves every row saved within the window
TimerKeepsFresh ==
  (req.op \in {"startup", "cleanup"}) =>
    \A c \in CartIds :
      (prev[c].exists /\ prev[c].lastUpdated >= now - 7 * DayMs) => carts[c] = prev[c]

\* every successful add, update, remove, clear and sync, one that changes no
\* item included, is a save: it sets lastUpdated to the time of the request
SaveRenews ==
  (req.op \in Mutating /\ resp.status = 200) =>
    /\ carts[req.cartId].exists
    /\ carts[req.cartId].lastUpdated = now
    /\ ~Stale(req.cartId)

\* C29: under the hourly schedule, a cart whose lastUpdated is older than
\* the 7-day window is eventually deleted unless it is saved again; and a
\* cart that is saved again within the window is not deleted by the
\* schedule: every save sets lastUpdated to the current time, also a sync
\* that changes no item, and a run of the timer leaves every row whose
\* lastUpdated is within the window.
C29_ScheduleDeletesStaleOnly ==
  /\ \A c \in CartIds : Stale(c) ~> (~carts[c].exists \/ ~Stale(c))
  /\ [](TimerKeepsFresh /\ SaveRenews)

\* a run of the timer kept a cart created more than seven days ago that a
\* sync without any change had saved on the day of the run, and deleted
\* nothing
C29_Witness ==
  /\ req.op = "cleanup"
  /\ req.fault = "none"
  /\ carts["A"].exists
  /\ carts["A"].createdAt < now - 7 * DayMs
  /\ carts["A"].lastUpdated = now
  /\ carts = prev

(***************************************************************************)
(* The browser client (public/cart.js).  One browser with the cart id "A": *)
(* its localStorage entry, and the calls of its CartManager, each of which *)
(* awaits the server between its steps, so that calls overlap.  Requests  *)
(* of different calls travel on their own connections and reach the server *)
(* in any order.  The clock stands still, so the entry never expires.      *)
(***************************************************************************)
ClientCart == "A"

\* the products of the page's buttons
ClientProducts == {<<"1">>, <<"2">>}

\* JSON.stringify of a stored item, parsed again by the server
toJSONItem(item) ==
  RawItem(Str(item.productId), Str(item.name), Milli(item.price),
          Milli(item.quantity), item.image)

\* body: JSON.stringify({ items: localItems })
syncRequest(localItems) ==
  Request("sync", ClientCart, "none", Undefined, Undefined, Undefined, Undefined,
          Undefined,
          RawList([i \in 1..Len(localItems) |-> toJSONItem(localItems[i])]))

\* body: JSON.stringify(product), the product of the page with quantity 1
\* (the one-character image stands for the product's emoji)
addRequest(productId) ==
  Request("add", ClientCart, "none", Str(productId), Str(products[productId].name),
          Milli(products[productId].price), Num(1), Str(<<"*">>), NotAnArray)

\* body: JSON.stringify({ productId, quantity })
updateRequest(productId, quantity) ==
  Request("update", ClientCart, "none", Str(productId), Undefined, Undefined,
          Num(quantity), Undefined, NotAnArray)

\* fetch(`/api/cart/remove/${productId}`, { method: 'DELETE' })
removeRequest(productId) ==
  Request("remove", ClientCart, "none", Str(productId), Undefined, Undefined,
          Undefined, Undefined, NotAnArray)

\* fetch('/api/cart/clear', { method: 'DELETE' })
clearRequest ==
  Request("clear", ClientCart, "none", Undefined, Undefined, Undefined, Undefined,
          Undefined, NotAnArray)

\* fetch('/api/cart')
getRequest ==
  Request("get", ClientCart, "none", Undefined, Undefined, Undefined, Undefined,
          Undefined, NotAnArray)

\* a call of the cart manager: r is the request it sends, at is "get" while
\* syncWithServer awaits getCartFromServer, "sent" while the request of the
\* call is on its way, "answered" while the response is; ok and items are
\* response.ok and data.items
Call(r, at) == [r |-> r, at |-> at, ok |-> FALSE, items |-> <<>>]

\* the sequence s without its element at position i
Without(s, i) == SubSeq(s, 1, i - 1) \o SubSeq(s, i + 1, Len(s))

\* what the call leaves in localStorage when its response arrives:
\* saveToLocalStorage(data.items) when response.ok (saveToLocalStorage([])
\* for clearCart); clearCart removes the entry otherwise
received(localItems, call) ==
  IF call.r.op = "clear" THEN <<>>
  ELSE IF call.ok THEN call.items
  ELSE localItems

\* the product ids that adds which are still on their way will send
PendingAdds(cs) ==
  { Trim(cs[j].r.productId.s) : j \in { k \in 1..Len(cs) : cs[k].r.op = "add" /\ cs[k].at = "sent" } }

\* the product ids in removed once request r has taken the items of the cart
\* from before to after: a remove, an update or a clear adds the ids it took
\* out of the cart, unless an add for the id is on its way
RemovedAfter(r, before, after, cs) ==
  IF r.op \in {"remove", "update", "clear"}
    THEN removed \cup ((ProductIdsOf(before) \ ProductIdsOf(after)) \ PendingAdds(cs))
    ELSE removed

InitClient ==
  /\ carts \in StoredCarts
  /\ now = 2 * DayMs
  /\ req = NoRequest
  /\ resp = NoResponse
  /\ nreq = 0
  /\ prev = carts
  /\ zeroed = {}
  /\ pc = "listening"
  /\ inflight = <<>>
  /\ NoProbe
  /\ local = carts[ClientCart].items
  /\ calls = <<>>
  /\ removed = {}

\* a method of the cart manager is called and runs to its first await
Issue(call) ==
  /\ nreq < MaxClientCalls
  /\ nreq' = nreq + 1
  /\ calls' = Append(calls, call)
  /\ UNCHANGED <<carts, now, req, resp, prev, zeroed, pc, inflight, args, result, local>>

\* syncWithServer(): localItems = this.loadFromLocalStorage(), then the
\* await of getCartFromServer()
SyncWithServer ==
  /\ Issue(Call(syncRequest(local), "get"))
  /\ UNCHANGED removed

AddItem ==
  \E p \in ClientProducts :
    /\ Issue(Call(addRequest(p), "sent"))
    /\ removed' = removed \ {p}

UpdateQuantity ==
  \E p \in ClientProducts, q \in {0, 2} :
    /\ Issue(Call(updateRequest(p, q), "sent"))
    /\ UNCHANGED removed

RemoveItem ==
  \E p \in ClientProducts :
    /\ Issue(Call(removeRequest(p), "sent"))
    /\ UNCHANGED removed

ClearCart ==
  /\ Issue(Call(clearRequest, "sent"))
  /\ UNCHANGED removed

\* the GET of a syncWithServer is answered (its items are not used) and the
\* call goes on to post the local items it read at its start
GetAnswered ==
  \E i \in 1..Len(calls) :
    /\ calls[i].at = "get"
    /\ calls' = [calls EXCEPT ![i].at = "sent"]
    /\ req' = getRequest
    /\ resp' = getCartHandler(carts, getRequest).resp
    /\ prev' = carts
    /\ UNCHANGED <<carts, now, nreq, zeroed, pc, inflight, args, result, local, removed>>

\* the server handles the request of a call
ServerHandles ==
  \E i \in 1..Len(calls) :
    /\ calls[i].at = "sent"
    /\ carts' = handle(carts, calls[i].r, now).store
    /\ req' = calls[i].r
    /\ resp' = handle(carts, calls[i].r, now).resp
    /\ prev' = carts
    /\ calls' = [calls EXCEPT ![i].at = "answered",
                              ![i].ok = (handle(carts, calls[i].r, now).resp.status = 200),
                              ![i].items = handle(carts, calls[i].r, now).resp.items]
    /\ removed' = RemovedAfter(calls[i].r, carts[ClientCart].items,
                               handle(carts, calls[i].r, now).store[ClientCart].items,
                               Without(calls, i))
    /\ UNCHANGED <<now, nreq, zeroed, pc, inflight, args, result, local>>

\* the response of a call arrives and the call returns
ClientReceives ==
  \E i \in 1..Len(calls) :
    /\ calls[i].at = "answered"
    /\ local' = received(local, calls[i])
    /\ calls' = Without(calls, i)
    /\ UNCHANGED <<carts, now, req, resp, nreq, prev, zeroed, pc, inflight, args, result, removed>>

NextClient ==
  \/ SyncWithServer
  \/ AddItem
  \/ UpdateQuantity
  \/ RemoveItem
  \/ ClearCart
  \/ GetAnswered
  \/ ServerHandles
  \/ ClientReceives

SpecClient == InitClient /\ [][NextClient]_vars

\* C30: once a removeItem, an updateQuantity to 0 or a clearCart of the
\* browser has taken a product out of the server cart, and the browser has
\* called no add for it since, the product is not in the server cart again,
\* whatever syncWithServer calls run, one that read localStorage before the
\* removal included.
C30_RemovalNotUndone ==
  \A p \in removed : p \notin ProductIdsOf(carts[ClientCart].items)

====
